---- MODULE Spec2Model ----
(***************************************************************************)
(* Phone Store Maracaibo: the product catalog (products.data.js), its      *)
(* lookup and relation functions, and the catalog page's filter pipeline   *)
(* (catalogo.js).                                                          *)
(*                                                                         *)
(* Encoding of JavaScript values.  A string on which the code performs     *)
(* character operations (toLowerCase, includes, trim, Number) is a         *)
(* sequence of one-character strings; a string that is only compared for   *)
(* equality (id, category, condition, image path) is a TLA+ string.  A     *)
(* value that may be a number, null, NaN or undefined is a tagged record   *)
(* [t, v], compared with StrictEq as === compares.                         *)
(***************************************************************************)
EXTENDS Integers, Sequences, FiniteSets, TLC

VARIABLES
    catalog,       \* window.PSM.PRODUCTS, the array the pages read
    filterState,   \* catalogo.js filterState {category, series, condition, search}
    result,        \* what the last getFilteredProducts() call returned
    calls,         \* number of getFilteredProducts() calls made so far
    stageArg,      \* the products array handed to a single filter stage
    stageOut,      \* what that stage returned
    argId,         \* the id handed to findProductById
    found,         \* what findProductById returned
    argProduct,    \* the product handed to getRelatedProducts
    related,       \* what getRelatedProducts returned
    present,       \* what resolveBadge (both pages) and resolveWarranty returned
    phase,         \* the open page's life cycle: none, loading, ready, redirected
    dom,           \* the catalog page's document: grid, empty state, counts, pills, search box
    timers,        \* the browser's pending setTimeout callbacks
    timer,         \* the timer id kept in the debounce closure (0: undefined)
    hist,          \* what the last search input event was, how long ago, and the firings since
    detail         \* the product page's document and location

vars == <<catalog, filterState, result, calls, stageArg, stageOut, argId, found, argProduct, related,
          present, phase, dom, timers, timer, hist, detail>>

filterVars == <<filterState, result, stageArg, stageOut>>

lookupVars == <<argId, found, argProduct, related>>

pageVars == <<phase, dom, timers, timer, hist, detail>>

(***************************************************************************)
(* JavaScript values                                                       *)
(***************************************************************************)
Num(n) == [t |-> "number", v |-> n]

Null == [t |-> "null", v |-> 0]

NaN == [t |-> "NaN", v |-> 0]

Undefined == [t |-> "undefined", v |-> 0]

Obj(o) == [t |-> "object", v |-> o]

\* no value yet: the function has not been called
None == [t |-> "none", v |-> 0]

\* a === b for numbers, null, NaN and undefined: same type and same value,
\* and NaN equal to nothing, itself included.
StrictEq(a, b) == a.t = b.t /\ a.t # "NaN" /\ a.v = b.v

\* a string that is only compared for equality, where null is possible too
Str(x) == [t |-> "string", v |-> x]

\* ToBoolean for the same values: a number other than 0 and NaN, an object, or
\* a string that is not empty.
Truthy(a) ==
    \/ (a.t = "number" /\ a.v # 0)
    \/ a.t = "object"
    \/ (a.t = "string" /\ a.v # "")

(***************************************************************************)
(* The seeded catalog, in declaration order.  A product's description, a   *)
(* long text that the code only copies into the detail page, is left out.  *)
(***************************************************************************)
PRODUCTS ==
  <<
    (* products.data.js:32 iPhone 17 Pro Max *)
    [ id |-> "iph-17-pro-max",
      name |-> <<"i","P","h","o","n","e"," ","1","7"," ","P","r","o"," ","M","a","x">>,
      category |-> "iphone",
      series |-> Num(17),
      condition |-> "nuevo",
      specs |-> << <<"A","1","9"," ","P","r","o">>,
                 <<"T","i","t","a","n","i","o">>,
                 <<"2","5","6","G","B">> >>,
      gallery |-> << "img/phone/product/iphone_17/17_pro_max_png/17promax.png",
                   "img/phone/product/iphone_17/iphone-17-series.webp" >>,
      waMessage |-> "Hola, me interesa el iPhone 17 Pro Max" ],
    (* products.data.js:46 iPhone 17 *)
    [ id |-> "iph-17",
      name |-> <<"i","P","h","o","n","e"," ","1","7">>,
      category |-> "iphone",
      series |-> Num(17),
      condition |-> "nuevo",
      specs |-> << <<"A","1","9">>,
                 <<"6",".","1","\"">>,
                 <<"1","2","8","G","B">> >>,
      gallery |-> << "img/phone/product/iphone_17/17_plus/iphone-17.png",
                   "img/phone/product/iphone_17/iphone-17-series.webp" >>,
      waMessage |-> "Hola, me interesa el iPhone 17" ],
    (* products.data.js:62 iPhone 16 Pro Max *)
    [ id |-> "iph-16-pro-max",
      name |-> <<"i","P","h","o","n","e"," ","1","6"," ","P","r","o"," ","M","a","x">>,
      category |-> "iphone",
      series |-> Num(16),
      condition |-> "nuevo",
      specs |-> << <<"A","1","8"," ","P","r","o">>,
                 <<"T","i","t","a","n","i","o">>,
                 <<"2","5","6","G","B">> >>,
      gallery |-> << "img/phone/product/iphone_16/16_pro_max/16_pro_max.png",
                   "img/phone/product/iphone_16/0021697_iphone-16-16-plus-series.jpeg" >>,
      waMessage |-> "Hola, me interesa el iPhone 16 Pro Max" ],
    (* products.data.js:76 iPhone 16 Negro *)
    [ id |-> "iph-16",
      name |-> <<"i","P","h","o","n","e"," ","1","6"," ","N","e","g","r","o">>,
      category |-> "iphone",
      series |-> Num(16),
      condition |-> "nuevo",
      specs |-> << <<"A","1","8">>,
                 <<"6",".","1","\"">>,
                 <<"1","2","8","G","B">>,
                 <<"N","e","g","r","o"," ","T","i","t","a","n","i","o">> >>,
      gallery |-> << "img/phone/product/iphone_16/png/iphone_16_black_titanium.png",
                   "img/phone/product/iphone_16/iphone-16-finish-select-202409-6-1inch-black.jfif" >>,
      waMessage |-> "Hola, me interesa el iPhone 16 en Negro Titanio" ],
    (* products.data.js:90 iPhone 16 Rosa *)
    [ id |-> "iph-16-pink",
      name |-> <<"i","P","h","o","n","e"," ","1","6"," ","R","o","s","a">>,
      category |-> "iphone",
      series |-> Num(16),
      condition |-> "nuevo",
      specs |-> << <<"A","1","8">>,
                 <<"6",".","1","\"">>,
                 <<"1","2","8","G","B">>,
                 <<"R","o","s","a">> >>,
      gallery |-> << "img/phone/product/iphone_16/png/iphone_16_pink.png",
                   "img/phone/product/iphone_16/iPhone-16-Teal-1.png" >>,
      waMessage |-> "Hola, me interesa el iPhone 16 en color Rosa" ],
    (* products.data.js:104 iPhone 16 Blanco *)
    [ id |-> "iph-16-white",
      name |-> <<"i","P","h","o","n","e"," ","1","6"," ","B","l","a","n","c","o">>,
      category |-> "iphone",
      series |-> Num(16),
      condition |-> "nuevo",
      specs |-> << <<"A","1","8">>,
                 <<"6",".","1","\"">>,
                 <<"1","2","8","G","B">>,
                 <<"B","l","a","n","c","o">> >>,
      gallery |-> << "img/phone/product/iphone_16/png/iphone_16_white.png",
                   "img/phone/product/iphone_16/0021697_iphone-16-16-plus-series.jpeg" >>,
      waMessage |-> "Hola, me interesa el iPhone 16 en color Blanco" ],
    (* products.data.js:120 iPhone 15 Pro Max *)
    [ id |-> "iph-15-pro-max",
      name |-> <<"i","P","h","o","n","e"," ","1","5"," ","P","r","o"," ","M","a","x">>,
      category |-> "iphone",
      series |-> Num(15),
      condition |-> "nuevo",
      specs |-> << <<"A","1","7"," ","P","r","o">>,
                 <<"T","i","t","a","n","i","o">>,
                 <<"2","5","6","G","B">> >>,
      gallery |-> << "img/phone/product/iphone_15/15_pro_max/15_pro_max.png",
                   "img/phone/iphone-15-pro-max-blue-titanium-256gb-back_4.jpg" >>,
      waMessage |-> "Hola, me interesa el iPhone 15 Pro Max" ],
    (* products.data.js:134 iPhone 15 Negro *)
    [ id |-> "iph-15-black",
      name |-> <<"i","P","h","o","n","e"," ","1","5"," ","N","e","g","r","o">>,
      category |-> "iphone",
      series |-> Num(15),
      condition |-> "certificado",
      specs |-> << <<"A","1","6"," ","B","i","o","n","i","c">>,
                 <<"6",".","1","\"">>,
                 <<"1","2","8","G","B">> >>,
      gallery |-> << "img/phone/product/iphone_15/iphone_15/iphone_15_black.png",
                   "img/phone/product/iphone_15/iphone_15/iphone_15_cream_1.png" >>,
      waMessage |-> "Hola, me interesa el iPhone 15 Negro certificado" ],
    (* products.data.js:148 iPhone 15 Crema *)
    [ id |-> "iph-15-cream",
      name |-> <<"i","P","h","o","n","e"," ","1","5"," ","C","r","e","m","a">>,
      category |-> "iphone",
      series |-> Num(15),
      condition |-> "certificado",
      specs |-> << <<"A","1","6"," ","B","i","o","n","i","c">>,
                 <<"6",".","1","\"">>,
                 <<"1","2","8","G","B">>,
                 <<"C","r","e","m","a">> >>,
      gallery |-> << "img/phone/product/iphone_15/iphone_15/iphone_15_cream_1.png",
                   "img/phone/product/iphone_15/iphone_15/iphone_15_white.png" >>,
      waMessage |-> "Hola, me interesa el iPhone 15 en color Crema" ],
    (* products.data.js:162 iPhone 15 Blanco *)
    [ id |-> "iph-15-white",
      name |-> <<"i","P","h","o","n","e"," ","1","5"," ","B","l","a","n","c","o">>,
      category |-> "iphone",
      series |-> Num(15),
      condition |-> "certificado",
      specs |-> << <<"A","1","6"," ","B","i","o","n","i","c">>,
                 <<"6",".","1","\"">>,
                 <<"1","2","8","G","B">>,
                 <<"B","l","a","n","c","o">> >>,
      gallery |-> << "img/phone/product/iphone_15/iphone_15/iphone_15_white.png",
                   "img/phone/product/iphone_15/iphone_15/iphone_15_cream_1.png" >>,
      waMessage |-> "Hola, me interesa el iPhone 15 en color Blanco" ],
    (* products.data.js:178 Cargador Apple 40W *)
    [ id |-> "acc-cargador-40w",
      name |-> <<"C","a","r","g","a","d","o","r"," ","A","p","p","l","e"," ","4","0","W">>,
      category |-> "accesorio",
      series |-> Null,
      condition |-> "nuevo",
      specs |-> << <<"O","r","i","g","i","n","a","l"," ","A","p","p","l","e">>,
                 <<"4","0","W">>,
                 <<"U","S","B","-","C">> >>,
      gallery |-> << "img/accesorys/cargador40w/PNG/40w.png" >>,
      waMessage |-> "Hola, me interesa el Cargador Apple 40W" ],
    (* products.data.js:191 Cable Anker USB-C *)
    [ id |-> "acc-cable-typec",
      name |-> <<"C","a","b","l","e"," ","A","n","k","e","r"," ","U","S","B","-","C">>,
      category |-> "accesorio",
      series |-> Null,
      condition |-> "nuevo",
      specs |-> << <<"N","y","l","o","n"," ","t","r","e","n","z","a","d","o">>,
                 <<"1"," ","m","e","t","r","o">>,
                 <<"U","S","B","-","C"," ","a"," ","U","S","B","-","C">> >>,
      gallery |-> << "img/accesorys/cableTypeC/PNG/cabletypec.png" >>,
      waMessage |-> "Hola, me interesa el Cable Anker USB-C" ],
    (* products.data.js:204 AirPods Serie 4 *)
    [ id |-> "acc-airpods-4",
      name |-> <<"A","i","r","P","o","d","s"," ","S","e","r","i","e"," ","4">>,
      category |-> "accesorio",
      series |-> Null,
      condition |-> "nuevo",
      specs |-> << <<"O","r","i","g","i","n","a","l"," ","A","p","p","l","e">>,
                 <<"A","N","C"," ","a","c","t","i","v","o">>,
                 <<"U","S","B","-","C">>,
                 <<"H","2"," ","c","h","i","p">> >>,
      gallery |-> << "img/accesorys/airpods/serie4/PNG/airpods-serie4.png" >>,
      waMessage |-> "Hola, me interesa los AirPods Serie 4" ],
    (* products.data.js:219 Cámara Frontal 15 Pro Max *)
    [ id |-> "rep-camara-frontal-15",
      name |-> <<"C","á","m","a","r","a"," ","F","r","o","n","t","a","l"," ","1","5"," ","P","r","o"," ","M","a","x">>,
      category |-> "repuesto",
      series |-> Null,
      condition |-> "nuevo",
      specs |-> << <<"O","r","i","g","i","n","a","l"," ","A","p","p","l","e">>,
                 <<"S","e","r","i","e"," ","1","3"," ","a","l"," ","1","5">>,
                 <<"I","n","c","l","u","y","e"," ","i","n","s","t","a","l","a","c","i","ó","n">> >>,
      gallery |-> << "img/accesorys/camara_iphone_pro_max/iphone_15_pro_max/PNG/camara-accesory-iphone-15-pro-max.png" >>,
      waMessage |-> "Hola, me interesa la Cámara Frontal para mi iPhone" ],
    (* products.data.js:232 Cámara Trasera Serie 14 *)
    [ id |-> "rep-camara-trasera-14",
      name |-> <<"C","á","m","a","r","a"," ","T","r","a","s","e","r","a"," ","S","e","r","i","e"," ","1","4">>,
      category |-> "repuesto",
      series |-> Null,
      condition |-> "nuevo",
      specs |-> << <<"O","r","i","g","i","n","a","l"," ","A","p","p","l","e">>,
                 <<"S","e","r","i","e"," ","1","4"," ","a","l"," ","1","6">>,
                 <<"I","n","c","l","u","y","e"," ","i","n","s","t","a","l","a","c","i","ó","n">> >>,
      gallery |-> << "img/accesorys/camara_iphone_pro_max/trasera-iphone_14/PNG/camara-trasera_iphone14.png" >>,
      waMessage |-> "Hola, me interesa la Cámara Trasera para mi iPhone" ],
    (* products.data.js:245 Batería iPhone 15 Pro Max *)
    [ id |-> "rep-bateria-15",
      name |-> <<"B","a","t","e","r","í","a"," ","i","P","h","o","n","e"," ","1","5"," ","P","r","o"," ","M","a","x">>,
      category |-> "repuesto",
      series |-> Null,
      condition |-> "nuevo",
      specs |-> << <<"O","r","i","g","i","n","a","l"," ","A","p","p","l","e">>,
                 <<"S","e","r","i","e"," ","1","4"," ","a","l"," ","1","6">>,
                 <<"I","n","c","l","u","y","e"," ","i","n","s","t","a","l","a","c","i","ó","n">>,
                 <<"1","0","0","%"," ","s","a","l","u","d">> >>,
      gallery |-> << "img/accesorys/bateries/PNG/bateries-iphone-15-pro-max.png" >>,
      waMessage |-> "Hola, me interesa el reemplazo de Batería para mi iPhone" ]
  >>

(***************************************************************************)
(* String operations, on sequences of characters                           *)
(***************************************************************************)
UpperCase == <<"A","B","C","D","E","F","G","H","I","J","K","L","M","N","O","P","Q","R","S","T","U","V","W","X","Y","Z","Á","É","Í","Ó","Ú","Ñ">>

LowerCase == <<"a","b","c","d","e","f","g","h","i","j","k","l","m","n","o","p","q","r","s","t","u","v","w","x","y","z","á","é","í","ó","ú","ñ">>

WhiteSpace == {" ", "\t", "\n", "\r"}

Digits == <<"0","1","2","3","4","5","6","7","8","9">>

\* String.prototype.toLowerCase, one character
ToLowerChar(c) ==
    IF \E i \in DOMAIN UpperCase : UpperCase[i] = c
    THEN LowerCase[CHOOSE i \in DOMAIN UpperCase : UpperCase[i] = c]
    ELSE c

\* String.prototype.toLowerCase
toLowerCase(s) == [i \in 1..Len(s) |-> ToLowerChar(s[i])]

\* String.prototype.includes: needle occurs in hay as a contiguous run
includes(hay, needle) ==
    \E i \in 0..(Len(hay) - Len(needle)) : SubSeq(hay, i + 1, i + Len(needle)) = needle

\* String.prototype.trim: leading and trailing white space removed
trim(s) ==
    LET inked == {i \in 1..Len(s) : s[i] \notin WhiteSpace}
    IN  IF inked = {} THEN <<>>
        ELSE SubSeq(s, CHOOSE i \in inked : \A j \in inked : i <= j,
                       CHOOSE i \in inked : \A j \in inked : j <= i)

IsDigit(c) == \E i \in DOMAIN Digits : Digits[i] = c

DigitValue(c) == (CHOOSE i \in DOMAIN Digits : Digits[i] = c) - 1

RECURSIVE DecimalValue(_)
DecimalValue(s) ==
    IF s = <<>> THEN 0
    ELSE 10 * DecimalValue(SubSeq(s, 1, Len(s) - 1)) + DigitValue(s[Len(s)])

\* Number(string): white space trimmed; the empty string is 0; an optionally
\* signed run of decimal digits is its value; anything else is NaN.  (The
\* fraction, exponent, radix-prefix and Infinity forms are not modelled; no
\* series value of SeriesValues uses them.)
Number(s) ==
    LET t == trim(s)
        signed == t # <<>> /\ t[1] \in {"+", "-"}
        d == IF signed THEN Tail(t) ELSE t
    IN  IF t = <<>> THEN Num(0)
        ELSE IF d # <<>> /\ \A i \in 1..Len(d) : IsDigit(d[i])
             THEN Num(IF signed /\ t[1] = "-" THEN 0 - DecimalValue(d) ELSE DecimalValue(d))
             ELSE NaN

\* the string 'all'
ALL == <<"a","l","l">>

(***************************************************************************)
(* catalogo.js, data layer: the pure filter functions                      *)
(***************************************************************************)
filterByCategory(products, category) ==
    IF category = "all" THEN products
    ELSE SelectSeq(products, LAMBDA p : p.category = category)

\* filterBySeries filtering the global PRODUCTS instead of its argument
filterBySeries_OverCatalog(products, series) ==
    IF series = ALL THEN products
    ELSE SelectSeq(PRODUCTS, LAMBDA p : StrictEq(p.series, Number(series)))

\* filterBySeries without the Number() conversion: p.series === series
\* compares a number (or null) with a string, which is never equal
filterBySeries_NoNumber(products, series) ==
    IF series = ALL THEN products
    ELSE SelectSeq(products, LAMBDA p : FALSE)

\* parseInt(string, 10): leading white space skipped, an optional sign, then
\* the longest run of digits; NaN when there is no digit
parseInt(s) ==
    LET inked == {i \in 1..Len(s) : s[i] \notin WhiteSpace}
        t == IF inked = {} THEN <<>>
             ELSE SubSeq(s, CHOOSE i \in inked : \A j \in inked : i <= j, Len(s))
        signed == t # <<>> /\ t[1] \in {"+", "-"}
        d == IF signed THEN Tail(t) ELSE t
        stops == {i \in 1..Len(d) : ~IsDigit(d[i])}
        run == IF stops = {} THEN d
               ELSE SubSeq(d, 1, (CHOOSE i \in stops : \A j \in stops : i <= j) - 1)
    IN  IF run = <<>> THEN NaN
        ELSE Num(IF signed /\ t[1] = "-" THEN 0 - DecimalValue(run) ELSE DecimalValue(run))

\* filterBySeries converting the selection with parseInt instead of Number
filterBySeries_ParseInt(products, series) ==
    IF series = ALL THEN products
    ELSE SelectSeq(products, LAMBDA p : StrictEq(p.series, parseInt(series)))

\* filterBySeries letting a product without series pass any selection
filterBySeries_NullPasses(products, series) ==
    IF series = ALL THEN products
    ELSE SelectSeq(products, LAMBDA p :
             ~Truthy(p.series) \/ StrictEq(p.series, Number(series)))

filterBySeries(products, series) ==
    IF series = ALL THEN products
    ELSE SelectSeq(products, LAMBDA p : StrictEq(p.series, Number(series)))

\* filterByCondition filtering PRODUCTS instead of the array it is handed
filterByCondition_OverCatalog(products, condition) ==
    IF condition = "all" THEN products
    ELSE SelectSeq(PRODUCTS, LAMBDA p : p.condition = condition)

filterByCondition(products, condition) ==
    IF condition = "all" THEN products
    ELSE SelectSeq(products, LAMBDA p : p.condition = condition)

\* filterBySearch returning the name matches followed by the specs matches
filterBySearch_ConcatMatches(products, query) ==
    IF Len(trim(query)) = 0 THEN products
    ELSE LET normalized == toLowerCase(query)
         IN  SelectSeq(products, LAMBDA p : includes(toLowerCase(p.name), normalized))
             \o SelectSeq(products, LAMBDA p :
                    \E k \in 1..Len(p.specs) : includes(toLowerCase(p.specs[k]), normalized))

\* filterBySearch testing !query instead of !query.trim()
filterBySearch_NoTrim(products, query) ==
    IF Len(query) = 0 THEN products
    ELSE LET normalized == toLowerCase(query)
         IN  SelectSeq(products, LAMBDA p :
                 \/ includes(toLowerCase(p.name), normalized)
                 \/ \E k \in 1..Len(p.specs) : includes(toLowerCase(p.specs[k]), normalized))

\* filterBySearch lowering the query but not the product's name
filterBySearch_CaseSensitiveName(products, query) ==
    IF Len(trim(query)) = 0 THEN products
    ELSE LET normalized == toLowerCase(query)
         IN  SelectSeq(products, LAMBDA p :
                 \/ includes(p.name, normalized)
                 \/ \E k \in 1..Len(p.specs) : includes(toLowerCase(p.specs[k]), normalized))

filterBySearch(products, query) ==
    IF Len(trim(query)) = 0 THEN products
    ELSE LET normalized == toLowerCase(query)
         IN  SelectSeq(products, LAMBDA p :
                 \/ includes(toLowerCase(p.name), normalized)
                 \/ \E k \in 1..Len(p.specs) : includes(toLowerCase(p.specs[k]), normalized))

\* the reduce handing the search stage the catalog instead of the
\* accumulated result
getFilteredProducts_SearchOverCatalog(products, fs) ==
    LET byCategory == filterByCategory(products, fs.category)
        bySeries == filterBySeries(byCategory, fs.series)
        byCondition == filterByCondition(bySeries, fs.condition)
    IN  filterBySearch(products, fs.search)

\* the reduce over the four stages, starting from PRODUCTS
getFilteredProducts(products, fs) ==
    LET byCategory == filterByCategory(products, fs.category)
        bySeries == filterBySeries(byCategory, fs.series)
        byCondition == filterByCondition(bySeries, fs.condition)
    IN  filterBySearch(byCondition, fs.search)

(***************************************************************************)
(* products.data.js: lookup and relation                                   *)
(***************************************************************************)
MAX_RELATED == 4

\* findProductById with the comparison negated: p.id !== id
findProductById_Negated(products, id) ==
    LET hits == {i \in 1..Len(products) : products[i].id # id}
    IN  IF hits = {} THEN Undefined
        ELSE Obj(products[CHOOSE i \in hits : \A j \in hits : i <= j])

\* Array.prototype.find: the first element that passes, or undefined
findProductById(products, id) ==
    LET hits == {i \in 1..Len(products) : products[i].id = id}
    IN  IF hits = {} THEN Undefined
        ELSE Obj(products[CHOOSE i \in hits : \A j \in hits : i <= j])

\* Array.prototype.slice(0, n)
slice0(s, n) == SubSeq(s, 1, IF Len(s) < n THEN Len(s) ELSE n)

\* getRelatedProducts without the p.id !== product.id test
getRelatedProducts_WithSelf(products, product) ==
    slice0(SelectSeq(products, LAMBDA p :
               \/ (Truthy(p.series) /\ StrictEq(p.series, product.series))
               \/ p.category = product.category),
           MAX_RELATED)

\* getRelatedProducts ranking the same-series products before the products
\* that share only the category
getRelatedProducts_Ranked(products, product) ==
    slice0(SelectSeq(products, LAMBDA p :
               /\ p.id # product.id
               /\ Truthy(p.series) /\ StrictEq(p.series, product.series))
           \o SelectSeq(products, LAMBDA p :
               /\ p.id # product.id
               /\ ~(Truthy(p.series) /\ StrictEq(p.series, product.series))
               /\ p.category = product.category),
           MAX_RELATED)

getRelatedProducts(products, product) ==
    slice0(SelectSeq(products, LAMBDA p :
               /\ p.id # product.id
               /\ \/ (Truthy(p.series) /\ StrictEq(p.series, product.series))
                  \/ p.category = product.category),
           MAX_RELATED)

(***************************************************************************)
(* Presentation: resolveBadge (catalogo.js and producto.js) and            *)
(* resolveWarranty (producto.js)                                           *)
(***************************************************************************)
\* obj[key]: the property's value, or undefined when obj has no such property
Property(obj, key) == IF key \in DOMAIN obj THEN Obj(obj[key]) ELSE Undefined

\* MAP of catalogo.js resolveBadge
MAP_catalogo ==
    [ nuevo |-> [cssClass |-> "catalog-card__badge--new", label |-> "Nuevo"],
      certificado |-> [cssClass |-> "catalog-card__badge--certified", label |-> "Certificado"],
      accesorio |-> [cssClass |-> "catalog-card__badge--accessory", label |-> "Accesorio"],
      repuesto |-> [cssClass |-> "catalog-card__badge--accessory", label |-> "Repuesto"] ]

\* MAP of producto.js resolveBadge
MAP_producto ==
    [ nuevo |-> [cssClass |-> "product-detail__badge--nuevo", label |-> "Nuevo"],
      certificado |-> [cssClass |-> "product-detail__badge--certificado", label |-> "Certificado PSM"],
      accesorio |-> [cssClass |-> "product-detail__badge--accesorio", label |-> "Accesorio"],
      repuesto |-> [cssClass |-> "product-detail__badge--repuesto", label |-> "Repuesto"] ]

\* resolveBadge looking every product up by its condition
resolveBadge_catalogo_ByCondition(product) == Property(MAP_catalogo, product.condition)

\* resolveBadge of catalogo.js
resolveBadge_catalogo(product) ==
    IF product.category # "iphone" THEN Property(MAP_catalogo, product.category)
    ELSE Property(MAP_catalogo, product.condition)

\* resolveBadge of producto.js
resolveBadge_producto(product) ==
    IF product.category # "iphone" THEN Property(MAP_producto, product.category)
    ELSE Property(MAP_producto, product.condition)

\* resolveWarranty giving the 60 days to every product that carries a series
resolveWarranty_BySeries(product) ==
    IF Truthy(product.series)
    THEN [title |-> "60 días de garantía PSM",
          subtitle |-> "Cubre defectos de fábrica y funcionamiento"]
    ELSE [title |-> "30 días de garantía PSM",
          subtitle |-> "Garantía sobre el producto y la instalación"]

resolveWarranty(product) ==
    IF product.category = "iphone"
    THEN [title |-> "60 días de garantía PSM",
          subtitle |-> "Cubre defectos de fábrica y funcionamiento"]
    ELSE [title |-> "30 días de garantía PSM",
          subtitle |-> "Garantía sobre el producto y la instalación"]

(***************************************************************************)
(* Inputs                                                                  *)
(***************************************************************************)
\* how many times getFilteredProducts is called in a row on one filter state
MaxCalls == 2

\* the longest generated search query
MaxQueryLen == 2

Functions == {"getFilteredProducts", "filterBySearch", "findProductById", "getRelatedProducts"}

\* data-filter values of the category pills and of ?filter= (catalogo.js:329)
Categories == {"all", "iphone", "accesorio", "repuesto"}

\* data-filter values of the condition pills and of ?filter= (catalogo.js:330)
Conditions == {"all", "nuevo", "certificado"}

\* series selections: the sentinel, the catalog's series, a series no product
\* has, numerals that Number reads as 16, selections that are no numeral,
\* and the empty selection, which Number reads as 0
SeriesValues ==
    { ALL, <<"1","5">>, <<"1","6">>, <<"1","7">>, <<"1","4">>,
      <<" ","1","6">>, <<"0","1","6">>, <<"a","b","c">>, <<"1","6","a">>, <<>> }

QueryAlphabet == {"P", "o", " "}

RECURSIVE StringsOfLen(_)
StringsOfLen(n) ==
    IF n = 0 THEN {<<>>}
    ELSE {Append(s, c) : s \in StringsOfLen(n - 1), c \in QueryAlphabet}

ExampleQueries ==
    { <<"p","r","o">>, <<"P","R","O">>, <<"A","1","8"," ","P","r","o">>,
      <<" ","p","r","o">>, <<"p","r","o"," ">>, <<"u","s","b","-","c">>,
      <<"C","Á","M","A","R","A">>, <<"x","y","z">>, <<" ","\t"," ">> }

Queries == ExampleQueries \cup UNION {StringsOfLen(n) : n \in 0..MaxQueryLen}

FilterStates == [category : Categories, series : SeriesValues, condition : Conditions, search : Queries]

\* filterState as declared (catalogo.js:30)
DefaultFilterState == [category |-> "all", series |-> ALL, condition |-> "all", search |-> <<>>]

\* arrays handed to a single stage: the catalog, the empty array, and an
\* array in another order with an element twice
StageInputs == {PRODUCTS, <<>>, <<PRODUCTS[11], PRODUCTS[3], PRODUCTS[8], PRODUCTS[3]>>}

\* ids asked for: every catalog id, and ids no product carries
LookupIds == {PRODUCTS[i].id : i \in 1..Len(PRODUCTS)} \cup {"nonexistent-id", "", "IPH-17", "iph-1"}

\* products handed to the presentation functions: every catalog product, and
\* the same record under either condition, with and without a series
PresentInputs ==
    UNION { { [PRODUCTS[i] EXCEPT !.condition = c, !.series = sr] :
                  c \in {"nuevo", "certificado"},
                  sr \in {PRODUCTS[i].series, Null, Num(16)} } :
            i \in 1..Len(PRODUCTS) }

NoCalls == [f \in Functions |-> 0]

(***************************************************************************)
(* Values of the variables a specification does not use                    *)
(***************************************************************************)
NoPresent == [card |-> None, detail |-> None, warranty |-> None]

\* no page is open: no document, no timer
NoPageOpen ==
    /\ phase = "none"
    /\ dom = None
    /\ timers = {}
    /\ timer = 0
    /\ hist = None
    /\ detail = None

(***************************************************************************)
(* The filter engine: a filter state is chosen and the functions applied   *)
(***************************************************************************)
InitFilter ==
    /\ catalog = PRODUCTS
    /\ filterState \in FilterStates
    /\ result = <<>>
    /\ calls = NoCalls
    /\ stageArg = <<>>
    /\ stageOut = <<>>
    /\ argId = ""
    /\ found = Undefined
    /\ argProduct = PRODUCTS[1]
    /\ related = <<>>
    /\ present = NoPresent
    /\ NoPageOpen

\* getFilteredProducts() filtering PRODUCTS in place
CallGetFilteredProducts_InPlace ==
    /\ calls["getFilteredProducts"] < MaxCalls
    /\ calls["filterBySearch"] = 0
    /\ result' = getFilteredProducts(catalog, filterState)
    /\ catalog' = getFilteredProducts(catalog, filterState)
    /\ calls' = [calls EXCEPT !["getFilteredProducts"] = @ + 1]
    /\ UNCHANGED <<filterState, stageArg, stageOut>>
    /\ UNCHANGED lookupVars
    /\ UNCHANGED <<present, pageVars>>

\* getFilteredProducts(): reads PRODUCTS and filterState, returns a new array
CallGetFilteredProducts ==
    /\ calls["getFilteredProducts"] < MaxCalls
    /\ calls["filterBySearch"] = 0
    /\ result' = getFilteredProducts(catalog, filterState)
    /\ calls' = [calls EXCEPT !["getFilteredProducts"] = @ + 1]
    /\ UNCHANGED <<catalog, filterState, stageArg, stageOut>>
    /\ UNCHANGED lookupVars
    /\ UNCHANGED <<present, pageVars>>

\* filterBySearch(products, query) on its own
CallFilterBySearch ==
    /\ calls = NoCalls
    /\ \E products \in StageInputs :
           /\ stageArg' = products
           /\ stageOut' = filterBySearch(products, filterState.search)
    /\ calls' = [calls EXCEPT !["filterBySearch"] = @ + 1]
    /\ UNCHANGED <<catalog, filterState, result>>
    /\ UNCHANGED lookupVars
    /\ UNCHANGED <<present, pageVars>>

NextFilter == CallGetFilteredProducts \/ CallFilterBySearch

SpecFilter == InitFilter /\ [][NextFilter]_vars

(***************************************************************************)
(* The stages of getFilteredProducts in another order                      *)
(***************************************************************************)
StageNames == {"category", "series", "condition", "search"}

\* the 24 orders of the four stages
StageOrders ==
    {order \in [1..4 -> StageNames] : \A i, j \in 1..4 : order[i] = order[j] => i = j}

\* the entries of the array getFilteredProducts reduces over
Stage(name, products, fs) ==
    CASE name = "category" -> filterByCategory(products, fs.category)
      [] name = "series" -> filterBySeries(products, fs.series)
      [] name = "condition" -> filterByCondition(products, fs.condition)
      [] name = "search" -> filterBySearch(products, fs.search)

\* the reduce over the stages in the given order, starting from products
ReduceStages(order, products, fs) ==
    Stage(order[4], Stage(order[3], Stage(order[2], Stage(order[1], products, fs), fs), fs), fs)

\* filter states the orders are compared on: every category and condition,
\* series absent, numeric and not, queries empty, blank, matching and not
CommuteStates ==
    [ category : Categories,
      series : {ALL, <<"1","6">>, <<"1","5">>, <<"a","b","c">>},
      condition : Conditions,
      search : {<<>>, <<" ">>, <<"p","r","o">>, <<"1","5">>, <<"x","y","z">>} ]

InitCommute ==
    /\ catalog = PRODUCTS
    /\ filterState \in CommuteStates
    /\ result = <<>>
    /\ calls = NoCalls
    /\ stageArg = <<>>
    /\ stageOut = <<>>
    /\ argId = ""
    /\ found = Undefined
    /\ argProduct = PRODUCTS[1]
    /\ related = <<>>
    /\ present = NoPresent
    /\ NoPageOpen

\* getFilteredProducts() beside the same reduce with its array in an order
\* of the caller's choice
CallStagesInOrder ==
    /\ calls["getFilteredProducts"] = 0
    /\ \E order \in StageOrders :
           /\ hist' = [order |-> order]
           /\ stageOut' = ReduceStages(order, catalog, filterState)
    /\ stageArg' = catalog
    /\ result' = getFilteredProducts(catalog, filterState)
    /\ calls' = [calls EXCEPT !["getFilteredProducts"] = @ + 1]
    /\ UNCHANGED <<catalog, filterState, present, phase, dom, timers, timer, detail>>
    /\ UNCHANGED lookupVars

NextCommute == CallStagesInOrder

SpecCommute == InitCommute /\ [][NextCommute]_vars

(***************************************************************************)
(* Lookup and relation: an id and a product are chosen                     *)
(***************************************************************************)
\* the catalog seeded with a record whose id was copied from the record
\* declared before it
InitLookup_DuplicateId ==
    /\ catalog = [PRODUCTS EXCEPT ![5].id = PRODUCTS[4].id]
    /\ filterState = DefaultFilterState
    /\ result = <<>>
    /\ calls = NoCalls
    /\ stageArg = <<>>
    /\ stageOut = <<>>
    /\ argId \in LookupIds
    /\ found = Undefined
    /\ argProduct \in {PRODUCTS[i] : i \in 1..Len(PRODUCTS)}
    /\ related = <<>>
    /\ present = NoPresent
    /\ NoPageOpen

\* the catalog seeded with an accessory that carries a series number
InitLookup_AccessoryWithSeries ==
    /\ catalog = [PRODUCTS EXCEPT ![11].series = Num(15)]
    /\ filterState = DefaultFilterState
    /\ result = <<>>
    /\ calls = NoCalls
    /\ stageArg = <<>>
    /\ stageOut = <<>>
    /\ argId \in LookupIds
    /\ found = Undefined
    /\ argProduct \in {PRODUCTS[i] : i \in 1..Len(PRODUCTS)}
    /\ related = <<>>
    /\ present = NoPresent
    /\ NoPageOpen

InitLookup ==
    /\ catalog = PRODUCTS
    /\ filterState = DefaultFilterState
    /\ result = <<>>
    /\ calls = NoCalls
    /\ stageArg = <<>>
    /\ stageOut = <<>>
    /\ argId \in LookupIds
    /\ found = Undefined
    /\ argProduct \in {PRODUCTS[i] : i \in 1..Len(PRODUCTS)}
    /\ related = <<>>
    /\ present = NoPresent
    /\ NoPageOpen

CallFindProductById ==
    /\ calls["findProductById"] = 0
    /\ found' = findProductById(catalog, argId)
    /\ calls' = [calls EXCEPT !["findProductById"] = @ + 1]
    /\ UNCHANGED <<catalog, argId, argProduct, related>>
    /\ UNCHANGED filterVars
    /\ UNCHANGED <<present, pageVars>>

CallGetRelatedProducts ==
    /\ calls["getRelatedProducts"] = 0
    /\ related' = getRelatedProducts(catalog, argProduct)
    /\ calls' = [calls EXCEPT !["getRelatedProducts"] = @ + 1]
    /\ UNCHANGED <<catalog, argId, argProduct, found>>
    /\ UNCHANGED filterVars
    /\ UNCHANGED <<present, pageVars>>

NextLookup == CallFindProductById \/ CallGetRelatedProducts

SpecLookup == InitLookup /\ [][NextLookup]_vars

(***************************************************************************)
(* Presentation: a product is chosen and the three functions applied       *)
(***************************************************************************)
InitPresent ==
    /\ catalog = PRODUCTS
    /\ filterState = DefaultFilterState
    /\ result = <<>>
    /\ calls = NoCalls
    /\ stageArg = <<>>
    /\ stageOut = <<>>
    /\ argId = ""
    /\ found = Undefined
    /\ argProduct \in PresentInputs
    /\ related = <<>>
    /\ present = NoPresent
    /\ NoPageOpen

\* resolveBadge(product) of the catalog card
CallResolveBadge_catalogo ==
    /\ present.card = None
    /\ present' = [present EXCEPT !.card = resolveBadge_catalogo(argProduct)]
    /\ UNCHANGED <<catalog, calls, filterVars, lookupVars, pageVars>>

\* resolveBadge(product) of the product detail
CallResolveBadge_producto ==
    /\ present.detail = None
    /\ present' = [present EXCEPT !.detail = resolveBadge_producto(argProduct)]
    /\ UNCHANGED <<catalog, calls, filterVars, lookupVars, pageVars>>

CallResolveWarranty ==
    /\ present.warranty = None
    /\ present' = [present EXCEPT !.warranty = Obj(resolveWarranty(argProduct))]
    /\ UNCHANGED <<catalog, calls, filterVars, lookupVars, pageVars>>

NextPresent == CallResolveBadge_catalogo \/ CallResolveBadge_producto \/ CallResolveWarranty

SpecPresent == InitPresent /\ [][NextPresent]_vars

(***************************************************************************)
(* The browser's timers: setTimeout and clearTimeout                       *)
(***************************************************************************)
\* how many callbacks may be pending at once
MaxTimers == 2

\* into how many steps the clock divides the debounce wait
TicksPerWait == 2

FreeTimerIds(table) == {i \in 1..MaxTimers : \A t \in table : t.id # i}

NewTimerId(table) == CHOOSE i \in FreeTimerIds(table) : \A j \in FreeTimerIds(table) : i <= j

\* setTimeout(() => fn(arg), wait): the table with the callback added
setTimeout(table, fn, arg, wait) ==
    table \cup {[id |-> NewTimerId(table), fn |-> fn, arg |-> arg, remaining |-> wait]}

\* clearTimeout(id): a pending callback with this id is dropped; an id that
\* is undefined or whose callback has run changes nothing
clearTimeout(table, id) == {t \in table : t.id # id}

\* the time until the next pending callback is due (step: no callback pending)
UntilDue(table, step) ==
    IF table = {} THEN step
    ELSE LET least == CHOOSE r \in {t.remaining : t \in table} :
                          \A t \in table : r <= t.remaining
         IN  IF least < step THEN least ELSE step

Elapse(table, d) == {[t EXCEPT !.remaining = @ - d] : t \in table}

(***************************************************************************)
(* catalogo.js: the catalog page                                           *)
(***************************************************************************)
ANIMATION_STAGGER_MS == 60

\* the wait handleSearch is debounced with
SEARCH_WAIT_MS == 250

\* the document as catalogo.html delivers it, before any script has run
InitialDom ==
    [ grid |-> <<>>,
      emptyHidden |-> TRUE,
      resultsCount |-> [count |-> 0, plural |-> TRUE],
      totalCount |-> 0,
      seriesGroupHidden |-> FALSE,
      activePill |-> [category |-> "all", series |-> ALL, condition |-> "all"],
      searchInput |-> <<>> ]

\* what has happened to the search box: the value of the last input event,
\* the time since it (counted up to the wait), how many input events the
\* current burst has had (counted up to 2), how often handleSearch's body
\* has run since the last input event, and whether the reset button was
\* clicked with no pill click or input event since
InitialHist ==
    [lastQuery |-> <<>>, sinceInput |-> SEARCH_WAIT_MS, events |-> 0, fires |-> 0,
     afterReset |-> FALSE]

\* values of the ?filter= parameter: missing, empty, the category and
\* condition names, and other strings
UrlFilters ==
    { Null, Str(""), Str("iphone"), Str("accesorio"), Str("repuesto"),
      Str("nuevo"), Str("certificado"), Str("all"), Str("16") }

\* data-filter values of the pills of each group
PillGroups == {"category", "series", "condition"}

SeriesPills == {ALL, <<"1","5">>, <<"1","6">>, <<"1","7">>}

Pills(group) ==
    CASE group = "category" -> Categories
      [] group = "series" -> SeriesPills
      [] group = "condition" -> Conditions

\* what the visitor types into the search box
PageQueries == {<<>>, <<"p","r","o">>, <<"x","y","z">>}

\* renderProductCard(product, index): the card's variable parts
renderProductCard(product, index) ==
    [ productId |-> product.id,
      badge |-> resolveBadge_catalogo(product),
      image |-> Property(product, "image"),
      name |-> product.name,
      specs |-> product.specs,
      waMessage |-> product.waMessage,
      delay |-> index * ANIMATION_STAGGER_MS ]

\* renderGrid without the emptyState.hidden = true of the non-empty branch
renderGrid_EmptyStateStays(d, products, total) ==
    LET counted == [d EXCEPT !.totalCount = total,
                             !.resultsCount = [count |-> Len(products),
                                               plural |-> Len(products) # 1]]
    IN  IF Len(products) = 0
        THEN [counted EXCEPT !.grid = <<>>, !.emptyHidden = FALSE]
        ELSE [counted EXCEPT !.grid = [i \in 1..Len(products) |->
                                           renderProductCard(products[i], i - 1)]]

\* renderGrid(products): the document after the call
renderGrid(d, products, total) ==
    LET counted == [d EXCEPT !.totalCount = total,
                             !.resultsCount = [count |-> Len(products),
                                               plural |-> Len(products) # 1]]
    IN  IF Len(products) = 0
        THEN [counted EXCEPT !.grid = <<>>, !.emptyHidden = FALSE]
        ELSE [counted EXCEPT !.emptyHidden = TRUE,
                             !.grid = [i \in 1..Len(products) |->
                                           renderProductCard(products[i], i - 1)]]

\* applyUrlFilter with a third group: a parameter naming a series selects it
applyUrlFilter_SeriesToo(fs, d, filter) ==
    IF ~Truthy(filter) THEN [fs |-> fs, dom |-> d]
    ELSE LET isCategory == filter.v \in {"iphone", "accesorio", "repuesto"}
             isCondition == filter.v \in {"nuevo", "certificado"}
             isSeries == filter.v = "16"
             fs1 == IF isCategory THEN [fs EXCEPT !.category = filter.v] ELSE fs
             d1 == IF isCategory THEN [d EXCEPT !.activePill.category = filter.v] ELSE d
             fs2 == IF isCondition THEN [fs1 EXCEPT !.condition = filter.v] ELSE fs1
             d2 == IF isCondition THEN [d1 EXCEPT !.activePill.condition = filter.v] ELSE d1
             fs3 == IF isSeries THEN [fs2 EXCEPT !.series = <<"1","6">>] ELSE fs2
             d3 == IF isSeries THEN [d2 EXCEPT !.activePill.series = <<"1","6">>] ELSE d2
         IN  [fs |-> fs3, dom |-> d3]

\* applyUrlFilter(): filterState and the active pills after the call
applyUrlFilter(fs, d, filter) ==
    IF ~Truthy(filter) THEN [fs |-> fs, dom |-> d]
    ELSE LET isCategory == filter.v \in {"iphone", "accesorio", "repuesto"}
             isCondition == filter.v \in {"nuevo", "certificado"}
             fs1 == IF isCategory THEN [fs EXCEPT !.category = filter.v] ELSE fs
             d1 == IF isCategory THEN [d EXCEPT !.activePill.category = filter.v] ELSE d
             fs2 == IF isCondition THEN [fs1 EXCEPT !.condition = filter.v] ELSE fs1
             d2 == IF isCondition THEN [d1 EXCEPT !.activePill.condition = filter.v] ELSE d1
         IN  [fs |-> fs2, dom |-> d2]

\* handleFilterClick(clickedPill, filterGroup) up to the render: filterState
\* and the document
handleFilterClick(fs, d, group, value) ==
    LET fs1 == [fs EXCEPT ![group] = value]
        d1 == [d EXCEPT !.activePill[group] = value,
                        !.seriesGroupHidden = ~(fs1.category = "all" \/ fs1.category = "iphone")]
        away == group = "category" /\ fs1.category # "iphone"
    IN  [ fs |-> IF away THEN [fs1 EXCEPT !.series = ALL] ELSE fs1,
          dom |-> IF away THEN [d1 EXCEPT !.activePill.series = ALL] ELSE d1 ]

\* debounce without the clearTimeout(timer)
debounce_NoClear(table, id, arg, wait) ==
    [ timers |-> setTimeout(table, "handleSearch", arg, wait),
      timer |-> NewTimerId(table) ]

\* one call of the function debounce(fn, wait) returns: the pending callback
\* is cleared and a new one scheduled, its id kept in the closure
debounce(table, id, arg, wait) ==
    [ timers |-> setTimeout(clearTimeout(table, id), "handleSearch", arg, wait),
      timer |-> NewTimerId(clearTimeout(table, id)) ]

InitPage ==
    /\ catalog = PRODUCTS
    /\ filterState = DefaultFilterState
    /\ result = <<>>
    /\ calls = NoCalls
    /\ stageArg = <<>>
    /\ stageOut = <<>>
    /\ argId = ""
    /\ found = Undefined
    /\ argProduct = PRODUCTS[1]
    /\ related = <<>>
    /\ present = NoPresent
    /\ phase = "loading"
    /\ dom = InitialDom
    /\ timers = {}
    /\ timer = 0
    /\ hist = InitialHist
    /\ detail = None

unusedOnPage == <<result, calls, stageArg, stageOut, argId, found, argProduct, related, present, detail>>

\* the DOMContentLoaded handler on a page opened with ?filter= as given:
\* applyUrlFilter(); bindEvents(); renderGrid(getFilteredProducts())
PageLoadWith(filter) ==
    /\ phase = "loading"
    /\ LET seeded == applyUrlFilter(filterState, dom, filter)
       IN  /\ filterState' = seeded.fs
           /\ dom' = renderGrid(seeded.dom, getFilteredProducts(catalog, seeded.fs),
                                Len(catalog))
    /\ phase' = "ready"
    /\ UNCHANGED <<catalog, timers, timer, hist, unusedOnPage>>

\* the DOMContentLoaded handler, for each value of ?filter=
PageLoad == \E filter \in UrlFilters : PageLoadWith(filter)

\* a click on a pill of a group that is shown
ClickPill ==
    /\ phase = "ready"
    /\ \E group \in PillGroups : \E value \in Pills(group) :
           /\ group = "series" => ~dom.seriesGroupHidden
           /\ LET after == handleFilterClick(filterState, dom, group, value)
              IN  /\ filterState' = after.fs
                  /\ dom' = renderGrid(after.dom, getFilteredProducts(catalog, after.fs), Len(catalog))
    /\ hist' = [hist EXCEPT !.afterReset = FALSE]
    /\ UNCHANGED <<catalog, phase, timers, timer, unusedOnPage>>

\* an input event of the search box: handleSearch(e.target.value), debounced
InputSearch ==
    /\ phase = "ready"
    /\ Cardinality(timers) < MaxTimers
    /\ \E query \in PageQueries :
           /\ query # dom.searchInput
           /\ dom' = [dom EXCEPT !.searchInput = query]
           /\ LET after == debounce(timers, timer, query, SEARCH_WAIT_MS)
              IN  timers' = after.timers /\ timer' = after.timer
           /\ hist' = [lastQuery |-> query, sinceInput |-> 0, fires |-> 0,
                        events |-> IF timers = {} THEN 1 ELSE 2, afterReset |-> FALSE]
    /\ UNCHANGED <<catalog, filterState, phase, unusedOnPage>>

\* handleSearch's body without its renderGrid call
FireTimer_NoRender ==
    /\ phase = "ready"
    /\ \E t \in timers :
           /\ t.remaining = 0
           /\ t.fn = "handleSearch"
           /\ timers' = timers \ {t}
           /\ filterState' = [filterState EXCEPT !.search = t.arg]
    /\ hist' = [hist EXCEPT !.fires = @ + 1]
    /\ UNCHANGED <<catalog, phase, dom, timer, unusedOnPage>>

\* handleSearch's body storing the pipeline's result in PSM.PRODUCTS
FireTimer_InPlace ==
    /\ phase = "ready"
    /\ \E t \in timers :
           /\ t.remaining = 0
           /\ t.fn = "handleSearch"
           /\ timers' = timers \ {t}
           /\ filterState' = [filterState EXCEPT !.search = t.arg]
           /\ catalog' = getFilteredProducts(catalog, filterState')
           /\ dom' = renderGrid(dom, catalog', Len(catalog'))
    /\ hist' = [hist EXCEPT !.fires = @ + 1]
    /\ UNCHANGED <<phase, timer, unusedOnPage>>

\* a pending callback that is due runs: handleSearch's body writes the query
\* and renders
FireTimer ==
    /\ phase = "ready"
    /\ \E t \in timers :
           /\ t.remaining = 0
           /\ t.fn = "handleSearch"
           /\ timers' = timers \ {t}
           /\ filterState' = [filterState EXCEPT !.search = t.arg]
           /\ dom' = renderGrid(dom, getFilteredProducts(catalog, filterState'), Len(catalog))
    /\ hist' = [hist EXCEPT !.fires = @ + 1]
    /\ UNCHANGED <<catalog, phase, timer, unusedOnPage>>

\* time passes, up to the moment the next callback is due
Tick ==
    /\ phase = "ready"
    /\ LET d == UntilDue(timers, SEARCH_WAIT_MS \div TicksPerWait)
       IN  /\ d > 0
           /\ timers # {} \/ hist.sinceInput < SEARCH_WAIT_MS
           /\ timers' = Elapse(timers, d)
           /\ hist' = [hist EXCEPT !.sinceInput =
                           IF @ + d > SEARCH_WAIT_MS THEN SEARCH_WAIT_MS ELSE @ + d]
    /\ UNCHANGED <<catalog, filterState, phase, dom, timer, unusedOnPage>>

\* the reset handler with search left out of the object it assigns
ClickReset_KeepsSearch ==
    /\ phase = "ready"
    /\ ~dom.emptyHidden
    /\ filterState' = [category |-> "all", series |-> ALL, condition |-> "all",
                       search |-> filterState.search]
    /\ dom' = renderGrid([dom EXCEPT !.activePill = [category |-> "all", series |-> ALL,
                                                       condition |-> "all"],
                                     !.searchInput = <<>>],
                         catalog, Len(catalog))
    /\ hist' = [hist EXCEPT !.afterReset = TRUE]
    /\ UNCHANGED <<catalog, phase, timers, timer, unusedOnPage>>

\* a click on the reset button, which sits in the empty state
ClickReset ==
    /\ phase = "ready"
    /\ ~dom.emptyHidden
    /\ filterState' = [category |-> "all", series |-> ALL, condition |-> "all", search |-> <<>>]
    /\ dom' = renderGrid([dom EXCEPT !.activePill = [category |-> "all", series |-> ALL,
                                                       condition |-> "all"],
                                     !.searchInput = <<>>],
                         catalog, Len(catalog))
    /\ hist' = [hist EXCEPT !.afterReset = TRUE]
    /\ UNCHANGED <<catalog, phase, timers, timer, unusedOnPage>>

Init == InitPage

Next == PageLoad \/ ClickPill \/ InputSearch \/ FireTimer \/ Tick \/ ClickReset

Spec == Init /\ [][Next]_vars

(***************************************************************************)
(* producto.js: the product page                                           *)
(***************************************************************************)
CATALOG_URL == "catalogo.html"

RELATED_STAGGER_MS == 80

\* the delay renderProduct injects the content after
CONTENT_DELAY_MS == 300

RENDER_DELAY_MS == 350

\* values of the ?id= parameter: missing, or a string
UrlIds == {Null} \cup {Str(id) : id \in LookupIds}

\* getProductIdFromUrl(): the parameter as the URL carries it
getProductIdFromUrl(d) == d.idParam

\* the document as producto.html delivers it, opened with ?id= as given
InitialDetail(idParam) ==
    [ idParam |-> idParam,
      location |-> "producto.html",
      metaFor |-> "",
      skeletonHidden |-> FALSE,
      content |-> None,
      relatedGrid |-> <<>>,
      relatedHidden |-> TRUE,
      eventsBound |-> FALSE ]

\* updateMetaTags(product): the document after the call
updateMetaTags(d, product) == [d EXCEPT !.metaFor = product.id]

\* what renderProduct(product) builds and injects after the delay
ProductHtml(product) ==
    Obj([ productId |-> product.id,
          badge |-> resolveBadge_producto(product),
          warranty |-> resolveWarranty(product),
          hero |-> product.gallery[1],
          thumbs |-> IF Len(product.gallery) > 1 THEN Len(product.gallery) ELSE 0 ])

\* renderRelated(relatedProducts): the document after the call
renderRelated(d, relatedProducts) ==
    IF Len(relatedProducts) = 0 THEN d
    ELSE [d EXCEPT !.relatedHidden = FALSE,
                   !.relatedGrid =
                       [i \in 1..Len(relatedProducts) |->
                           [ productId |-> relatedProducts[i].id,
                             image |-> relatedProducts[i].gallery[1],
                             conditionLabel |-> IF relatedProducts[i].condition = "certificado"
                                                THEN "Certificado" ELSE "Nuevo",
                             delay |-> (i - 1) * RELATED_STAGGER_MS ]]]

InitProduct ==
    /\ catalog = PRODUCTS
    /\ filterState = DefaultFilterState
    /\ result = <<>>
    /\ calls = NoCalls
    /\ stageArg = <<>>
    /\ stageOut = <<>>
    /\ argId = ""
    /\ found = Undefined
    /\ argProduct = PRODUCTS[1]
    /\ related = <<>>
    /\ present = NoPresent
    /\ phase = "loading"
    /\ dom = None
    /\ timers = {}
    /\ timer = 0
    /\ hist = None
    /\ detail \in {InitialDetail(idParam) : idParam \in UrlIds}

unusedOnProduct == <<catalog, filterState, result, calls, stageArg, stageOut, present, dom, timer, hist>>

\* the DOMContentLoaded handler with the not-found guard testing for null
\* only: findProductById's undefined passes it and updateMetaTags throws
ProductPageLoad_NullGuard ==
    /\ phase = "loading"
    /\ LET productId == getProductIdFromUrl(detail)
       IN  IF ~Truthy(productId)
           THEN /\ detail' = [detail EXCEPT !.location = CATALOG_URL]
                /\ phase' = "redirected"
                /\ UNCHANGED <<argId, found, argProduct, related, timers>>
           ELSE /\ argId' = productId.v
                /\ found' = findProductById(catalog, productId.v)
                /\ IF found' = Null
                   THEN /\ detail' = [detail EXCEPT !.location = CATALOG_URL]
                        /\ phase' = "redirected"
                        /\ UNCHANGED <<argProduct, related, timers>>
                   ELSE IF found'.t # "object"
                   THEN /\ phase' = "failed"
                        /\ UNCHANGED <<detail, argProduct, related, timers>>
                   ELSE /\ argProduct' = found'.v
                        /\ related' = getRelatedProducts(catalog, found'.v)
                        /\ timers' = setTimeout(setTimeout(timers, "injectContent",
                                                           ProductHtml(found'.v), CONTENT_DELAY_MS),
                                                "bindEvents", Obj(found'.v.id), RENDER_DELAY_MS)
                        /\ detail' = renderRelated(updateMetaTags(detail, found'.v), related')
                        /\ phase' = "ready"
    /\ UNCHANGED unusedOnProduct

\* the DOMContentLoaded handler: the two guards, then updateMetaTags,
\* renderProduct, the delayed binding of the gallery and share events,
\* getRelatedProducts and renderRelated
ProductPageLoad ==
    /\ phase = "loading"
    /\ LET productId == getProductIdFromUrl(detail)
       IN  IF ~Truthy(productId)
           THEN /\ detail' = [detail EXCEPT !.location = CATALOG_URL]
                /\ phase' = "redirected"
                /\ UNCHANGED <<argId, found, argProduct, related, timers>>
           ELSE /\ argId' = productId.v
                /\ found' = findProductById(catalog, productId.v)
                /\ IF ~Truthy(found')
                   THEN /\ detail' = [detail EXCEPT !.location = CATALOG_URL]
                        /\ phase' = "redirected"
                        /\ UNCHANGED <<argProduct, related, timers>>
                   ELSE /\ argProduct' = found'.v
                        /\ related' = getRelatedProducts(catalog, found'.v)
                        /\ timers' = setTimeout(setTimeout(timers, "injectContent",
                                                           ProductHtml(found'.v), CONTENT_DELAY_MS),
                                                "bindEvents", Obj(found'.v.id), RENDER_DELAY_MS)
                        /\ detail' = renderRelated(updateMetaTags(detail, found'.v), related')
                        /\ phase' = "ready"
    /\ UNCHANGED unusedOnProduct

\* renderProduct's delayed callback: the skeleton goes, the content comes
InjectContent ==
    /\ phase = "ready"
    /\ \E t \in timers :
           /\ t.remaining = 0
           /\ t.fn = "injectContent"
           /\ timers' = timers \ {t}
           /\ detail' = [detail EXCEPT !.skeletonHidden = TRUE, !.content = t.arg]
    /\ UNCHANGED <<phase, argId, found, argProduct, related>>
    /\ UNCHANGED unusedOnProduct

\* the delayed callback of the load handler: bindGalleryEvents(product);
\* bindShareButton()
BindEvents ==
    /\ phase = "ready"
    /\ \E t \in timers :
           /\ t.remaining = 0
           /\ t.fn = "bindEvents"
           /\ timers' = timers \ {t}
           /\ detail' = [detail EXCEPT !.eventsBound = TRUE]
    /\ UNCHANGED <<phase, argId, found, argProduct, related>>
    /\ UNCHANGED unusedOnProduct

\* time passes on the product page, up to the moment the next callback is due
ProductTick ==
    /\ phase = "ready"
    /\ timers # {}
    /\ LET d == UntilDue(timers, SEARCH_WAIT_MS \div TicksPerWait)
       IN  /\ d > 0
           /\ timers' = Elapse(timers, d)
    /\ UNCHANGED <<phase, detail, argId, found, argProduct, related>>
    /\ UNCHANGED unusedOnProduct

NextProduct == ProductPageLoad \/ InjectContent \/ BindEvents \/ ProductTick

SpecProduct == InitProduct /\ [][NextProduct]_vars

(***************************************************************************)
(* The catalog page with the ?filter= parameter it was opened with kept,   *)
(* and the clicks that follow the load                                     *)
(***************************************************************************)
InitSeed ==
    /\ catalog = PRODUCTS
    /\ filterState = DefaultFilterState
    /\ result = <<>>
    /\ calls = NoCalls
    /\ stageArg = <<>>
    /\ stageOut = <<>>
    /\ argId = ""
    /\ found = Undefined
    /\ argProduct = PRODUCTS[1]
    /\ related = <<>>
    /\ present = NoPresent
    /\ phase = "loading"
    /\ dom = InitialDom
    /\ timers = {}
    /\ timer = 0
    /\ hist \in {[url |-> filter, afterReset |-> FALSE] : filter \in UrlFilters}
    /\ detail = None

\* the DOMContentLoaded handler reading window.location.search
PageLoadFromUrl == PageLoadWith(hist.url)

NextSeed == PageLoadFromUrl \/ ClickPill \/ ClickReset

SpecSeed == InitSeed /\ [][NextSeed]_vars

(***************************************************************************)
(* The B2B inquiry form (src/unnamed/part_000)                             *)
(***************************************************************************)
WHATSAPP_NUMBER == "584146395496"

WHATSAPP_BASE == "https://wa.me/"

REQUIRED_FIELDS ==
    << [id |-> "field-name", label |-> "nombre completo", errorId |-> "error-name"],
       [id |-> "field-business", label |-> "negocio o empresa", errorId |-> "error-business"],
       [id |-> "field-products", label |-> "productos", errorId |-> "error-products"] >>

RESTORE_MS == 3000

\* how many submissions of the form are followed
MaxSubmits == 2

RequiredIds == {REQUIRED_FIELDS[i].id : i \in 1..Len(REQUIRED_FIELDS)}

ErrorIds == {REQUIRED_FIELDS[i].errorId : i \in 1..Len(REQUIRED_FIELDS)}

\* the fields extractFormData reads
FieldIds == RequiredIds \cup {"field-volume", "field-payment", "field-message"}

\* the fields the visitor edits, and what they may hold: nothing, blanks,
\* text, text between blanks
EditedFields == RequiredIds \cup {"field-volume"}

FieldValues == {<<>>, <<" ">>, <<"a">>, <<" ","a"," ">>}

\* the form as the page delivers it
InitialForm ==
    [ fields |-> [f \in FieldIds |-> <<>>],
      inputError |-> {},
      errorText |-> [e \in ErrorIds |-> ""],
      btnDisabled |-> FALSE,
      btnText |-> "Enviar solicitud por WhatsApp",
      focus |-> "",
      opened |-> None ]

InitialFormHist == [submits |-> 0, opens |-> 0, sinceValid |-> RESTORE_MS]

\* getFieldValue(fieldId): the field's value, trimmed
getFieldValue(d, fieldId) ==
    IF fieldId \in DOMAIN d.fields THEN trim(d.fields[fieldId]) ELSE <<>>

extractFormData(d) ==
    [ name |-> getFieldValue(d, "field-name"),
      business |-> getFieldValue(d, "field-business"),
      products |-> getFieldValue(d, "field-products"),
      volume |-> getFieldValue(d, "field-volume"),
      payment |-> getFieldValue(d, "field-payment"),
      message |-> getFieldValue(d, "field-message") ]

\* validateForm testing the raw value of each field, blanks counting as text
validateForm_Untrimmed(d) ==
    LET errors == SelectSeq(REQUIRED_FIELDS, LAMBDA field : Len(d.fields[field.id]) = 0)
    IN  [isValid |-> Len(errors) = 0, errors |-> errors]

\* validateForm(data): the required fields whose value, read again from the
\* document, is empty
validateForm(d) ==
    LET errors == SelectSeq(REQUIRED_FIELDS, LAMBDA field : Len(getFieldValue(d, field.id)) = 0)
    IN  [isValid |-> Len(errors) = 0, errors |-> errors]

\* buildWhatsAppMessage(data): the link, its text as the lines that are
\* joined and percent-encoded, the optional ones only when filled in
buildWhatsAppMessage(data) ==
    [ base |-> WHATSAPP_BASE,
      number |-> WHATSAPP_NUMBER,
      text |-> << <<"Nombre", data.name>>, <<"Negocio", data.business>>,
                  <<"Productos solicitados", data.products>> >>
               \o (IF Len(data.volume) > 0 THEN << <<"Volumen estimado", data.volume>> >> ELSE <<>>)
               \o (IF Len(data.payment) > 0 THEN << <<"Metodo de pago", data.payment>> >> ELSE <<>>)
               \o (IF Len(data.message) > 0 THEN << <<"Comentarios", data.message>> >> ELSE <<>>) ]

\* showErrors(errors): the document after the call
showErrors(d, errors) ==
    [d EXCEPT !.inputError = @ \cup {errors[i].id : i \in 1..Len(errors)},
              !.errorText = [e \in ErrorIds |->
                                IF \E i \in 1..Len(errors) : errors[i].errorId = e
                                THEN "requerido" ELSE @[e]]]

\* clearErrors(): the document after the call
clearErrors(d) ==
    [d EXCEPT !.inputError = @ \ RequiredIds,
              !.errorText = [e \in ErrorIds |-> ""]]

\* scrollToFirstError(errors): the document after the call
scrollToFirstError(d, errors) ==
    IF Len(errors) = 0 THEN d ELSE [d EXCEPT !.focus = errors[1].id]

InitForm ==
    /\ catalog = PRODUCTS
    /\ filterState = DefaultFilterState
    /\ result = <<>>
    /\ calls = NoCalls
    /\ stageArg = <<>>
    /\ stageOut = <<>>
    /\ argId = ""
    /\ found = Undefined
    /\ argProduct = PRODUCTS[1]
    /\ related = <<>>
    /\ present = NoPresent
    /\ phase = "loading"
    /\ dom = InitialForm
    /\ timers = {}
    /\ timer = 0
    /\ hist = InitialFormHist
    /\ detail = None

unusedOnForm ==
    <<catalog, filterState, result, calls, stageArg, stageOut, argId, found, argProduct,
      related, present, timer, detail>>

\* the DOMContentLoaded handler: bindEvents()
FormLoad ==
    /\ phase = "loading"
    /\ phase' = "ready"
    /\ UNCHANGED <<dom, timers, hist>>
    /\ UNCHANGED unusedOnForm

\* the visitor changes a field: the input event runs handleFieldInput
EditField ==
    /\ phase = "ready"
    /\ \E field \in EditedFields : \E value \in FieldValues :
           /\ value # dom.fields[field]
           /\ LET typed == [dom EXCEPT !.fields[field] = value]
              IN  dom' =
                      IF field \notin typed.inputError THEN typed
                      ELSE LET unmarked == [typed EXCEPT !.inputError = @ \ {field}]
                               match == {i \in 1..Len(REQUIRED_FIELDS) :
                                             REQUIRED_FIELDS[i].id = field}
                           IN  IF match = {} THEN unmarked
                               ELSE [unmarked EXCEPT
                                         !.errorText[REQUIRED_FIELDS[CHOOSE i \in match : TRUE].errorId] = ""]
    /\ UNCHANGED <<phase, timers, hist>>
    /\ UNCHANGED unusedOnForm

\* the visitor submits the form with its button, which a disabled button
\* does not allow: handleSubmit
SubmitForm ==
    /\ phase = "ready"
    /\ ~dom.btnDisabled
    /\ hist.submits < MaxSubmits
    /\ LET cleared == clearErrors(dom)
           data == extractFormData(cleared)
           checked == validateForm(cleared)
       IN  IF ~checked.isValid
           THEN /\ dom' = scrollToFirstError(showErrors(cleared, checked.errors), checked.errors)
                /\ hist' = [hist EXCEPT !.submits = @ + 1]
                /\ UNCHANGED timers
           ELSE /\ dom' = [cleared EXCEPT !.btnDisabled = TRUE,
                                          !.btnText = "Abriendo WhatsApp...",
                                          !.opened = Obj(buildWhatsAppMessage(data))]
                /\ timers' = setTimeout(timers, "restoreButton", Null, RESTORE_MS)
                /\ hist' = [submits |-> hist.submits + 1, opens |-> hist.opens + 1,
                            sinceValid |-> 0]
    /\ UNCHANGED phase
    /\ UNCHANGED unusedOnForm

\* setSubmitLoading's delayed callback
RestoreButton ==
    /\ phase = "ready"
    /\ \E t \in timers :
           /\ t.remaining = 0
           /\ t.fn = "restoreButton"
           /\ timers' = timers \ {t}
    /\ dom' = [dom EXCEPT !.btnDisabled = FALSE, !.btnText = "Enviar solicitud por WhatsApp"]
    /\ UNCHANGED <<phase, hist>>
    /\ UNCHANGED unusedOnForm

\* time passes on the form's page, up to the moment the callback is due
FormTick ==
    /\ phase = "ready"
    /\ timers # {}
    /\ LET d == UntilDue(timers, RESTORE_MS \div TicksPerWait)
       IN  /\ d > 0
           /\ timers' = Elapse(timers, d)
           /\ hist' = [hist EXCEPT !.sinceValid =
                           IF @ + d > RESTORE_MS THEN RESTORE_MS ELSE @ + d]
    /\ UNCHANGED <<phase, dom>>
    /\ UNCHANGED unusedOnForm

NextForm == FormLoad \/ EditField \/ SubmitForm \/ RestoreButton \/ FormTick

SpecForm == InitForm /\ [][NextForm]_vars

(***************************************************************************)
(* script.js: CarouselComponent                                            *)
(***************************************************************************)
\* the delay after which moveByCard ends the transition
TRANSITION_MS == 450

\* the least swipe, in px, that moves the carousel
SWIPE_PX == 50

\* lengths along the track are counted in the distance one animation frame
\* moves it; a card with its gap is CardUnits of them, and the track holds
\* OriginalCards cards before the clones
CardUnits == 3

OriginalCards == 3

\* clientX of a touch: two points further apart than a swipe needs, and one
\* close to the first
TouchXs == {0, 20, 100}

Abs(n) == IF n < 0 THEN -n ELSE n

\* the closure's variables as declared, the track untouched
InitialCarousel ==
    [ currentX |-> 0,
      isAutoPlaying |-> TRUE,
      isTransitioning |-> FALSE,
      cardWidth |-> 0,
      totalOriginalWidth |-> 0,
      touchStartX |-> 0,
      transition |-> "" ]

\* the pointer and the finger, which the handlers are told about
InitialPointer == [hovering |-> FALSE, touching |-> FALSE]

\* moveByCard(direction) past its guard: the closure's variables after it
moveByCard(c, direction) ==
    LET moved == c.currentX - direction * c.cardWidth
        back == IF moved > 0 THEN moved - c.totalOriginalWidth ELSE moved
        x == IF Abs(back) >= c.totalOriginalWidth THEN back + c.totalOriginalWidth ELSE back
    IN  [c EXCEPT !.isTransitioning = TRUE,
                  !.isAutoPlaying = FALSE,
                  !.currentX = x,
                  !.transition = "transform 0.45s"]

InitCarousel ==
    /\ catalog = PRODUCTS
    /\ filterState = DefaultFilterState
    /\ result = <<>>
    /\ calls = NoCalls
    /\ stageArg = <<>>
    /\ stageOut = <<>>
    /\ argId = ""
    /\ found = Undefined
    /\ argProduct = PRODUCTS[1]
    /\ related = <<>>
    /\ present = NoPresent
    /\ phase = "loading"
    /\ dom = InitialCarousel
    /\ timers = {}
    /\ timer = 0
    /\ hist = InitialPointer
    /\ detail = None

unusedOnCarousel ==
    <<catalog, filterState, result, calls, stageArg, stageOut, argId, found, argProduct,
      related, present, timer, detail>>

\* init(): setupInfiniteLoop measures the track, the first frame is requested
\* and the listeners are bound
CarouselInit ==
    /\ phase = "loading"
    /\ dom' = [dom EXCEPT !.cardWidth = CardUnits,
                          !.totalOriginalWidth = CardUnits * OriginalCards]
    /\ phase' = "ready"
    /\ UNCHANGED <<timers, hist>>
    /\ UNCHANGED unusedOnCarousel

\* animate(timestamp): one frame
AnimateFrame ==
    /\ phase = "ready"
    /\ dom' = IF dom.isAutoPlaying /\ ~dom.isTransitioning
              THEN [dom EXCEPT !.currentX =
                        IF Abs(@ - 1) >= dom.totalOriginalWidth
                        THEN @ - 1 + dom.totalOriginalWidth ELSE @ - 1]
              ELSE dom
    /\ UNCHANGED <<phase, timers, hist>>
    /\ UNCHANGED unusedOnCarousel

\* a click on the previous or the next arrow: moveByCard(-1), moveByCard(1)
ArrowClick ==
    /\ phase = "ready"
    /\ \E direction \in {-1, 1} :
           IF dom.isTransitioning
           THEN UNCHANGED <<dom, timers>>
           ELSE /\ dom' = moveByCard(dom, direction)
                /\ timers' = setTimeout(timers, "transitionEnd", Null, TRANSITION_MS)
    /\ UNCHANGED <<phase, hist>>
    /\ UNCHANGED unusedOnCarousel

\* moveByCard's delayed callback
TransitionEnd ==
    /\ phase = "ready"
    /\ \E t \in timers :
           /\ t.remaining = 0
           /\ t.fn = "transitionEnd"
           /\ timers' = timers \ {t}
    /\ dom' = [dom EXCEPT !.transition = "", !.isTransitioning = FALSE, !.isAutoPlaying = TRUE]
    /\ UNCHANGED <<phase, hist>>
    /\ UNCHANGED unusedOnCarousel

\* the pointer comes over the track
MouseEnter ==
    /\ phase = "ready"
    /\ ~hist.hovering
    /\ hist' = [hist EXCEPT !.hovering = TRUE]
    /\ dom' = [dom EXCEPT !.isAutoPlaying = FALSE]
    /\ UNCHANGED <<phase, timers>>
    /\ UNCHANGED unusedOnCarousel

\* the pointer leaves the track
MouseLeave ==
    /\ phase = "ready"
    /\ hist.hovering
    /\ hist' = [hist EXCEPT !.hovering = FALSE]
    /\ dom' = IF ~dom.isTransitioning THEN [dom EXCEPT !.isAutoPlaying = TRUE] ELSE dom
    /\ UNCHANGED <<phase, timers>>
    /\ UNCHANGED unusedOnCarousel

\* a finger touches the track
TouchStart ==
    /\ phase = "ready"
    /\ ~hist.touching
    /\ \E x \in TouchXs :
           dom' = [dom EXCEPT !.touchStartX = x, !.isAutoPlaying = FALSE]
    /\ hist' = [hist EXCEPT !.touching = TRUE]
    /\ UNCHANGED <<phase, timers>>
    /\ UNCHANGED unusedOnCarousel

\* the finger is lifted: a swipe moves by a card, a tap resumes auto-play
TouchEnd ==
    /\ phase = "ready"
    /\ hist.touching
    /\ \E x \in TouchXs :
           LET diff == dom.touchStartX - x
           IN  IF Abs(diff) > SWIPE_PX
               THEN IF dom.isTransitioning
                    THEN UNCHANGED <<dom, timers>>
                    ELSE /\ dom' = moveByCard(dom, IF diff > 0 THEN 1 ELSE -1)
                         /\ timers' = setTimeout(timers, "transitionEnd", Null, TRANSITION_MS)
               ELSE /\ dom' = [dom EXCEPT !.isAutoPlaying = TRUE]
                    /\ UNCHANGED timers
    /\ hist' = [hist EXCEPT !.touching = FALSE]
    /\ UNCHANGED phase
    /\ UNCHANGED unusedOnCarousel

\* time passes on the carousel's page, up to the moment the callback is due
CarouselTick ==
    /\ phase = "ready"
    /\ timers # {}
    /\ LET d == UntilDue(timers, TRANSITION_MS \div TicksPerWait)
       IN  /\ d > 0
           /\ timers' = Elapse(timers, d)
    /\ UNCHANGED <<phase, dom, hist>>
    /\ UNCHANGED unusedOnCarousel

NextCarousel ==
    \/ CarouselInit
    \/ AnimateFrame
    \/ ArrowClick
    \/ TransitionEnd
    \/ MouseEnter
    \/ MouseLeave
    \/ TouchStart
    \/ TouchEnd
    \/ CarouselTick

SpecCarousel == InitCarousel /\ [][NextCarousel]_vars

(***************************************************************************)
(* The catalog page together with the lookups of products.data.js: every   *)
(* operation that is handed the catalog                                    *)
(***************************************************************************)
\* ids looked up beside the page's events: one of the catalog, one of none
ReadOnlyIds == {"iph-15-pro-max", "nonexistent-id"}

InitReadOnly ==
    /\ catalog = PRODUCTS
    /\ filterState = DefaultFilterState
    /\ result = <<>>
    /\ calls = NoCalls
    /\ stageArg = <<>>
    /\ stageOut = <<>>
    /\ argId \in ReadOnlyIds
    /\ found = Undefined
    /\ argProduct = PRODUCTS[7]
    /\ related = <<>>
    /\ present = NoPresent
    /\ phase = "loading"
    /\ dom = InitialDom
    /\ timers = {}
    /\ timer = 0
    /\ hist = InitialHist
    /\ detail = None

NextReadOnly == Next \/ CallFindProductById \/ CallGetRelatedProducts

SpecReadOnly == InitReadOnly /\ [][NextReadOnly]_vars

(***************************************************************************)
(* Vocabulary of the properties                                            *)
(***************************************************************************)
\* a and b are the same letter, case aside
SameLetter(a, b) == ToLowerChar(a) = ToLowerChar(b)

\* q occurs in s at some offset, letters compared case aside
OccursIgnoringCase(q, s) ==
    \E off \in 0..(Len(s) - Len(q)) : \A k \in 1..Len(q) : SameLetter(s[off + k], q[k])

\* q is empty or white space only
Blank(q) == \A i \in 1..Len(q) : q[i] \in WhiteSpace

SearchMatches(p, q) ==
    \/ OccursIgnoringCase(q, p.name)
    \/ \E k \in 1..Len(p.specs) : OccursIgnoringCase(q, p.specs[k])

PassesCategory(p, fs) == fs.category = "all" \/ p.category = fs.category

PassesSeries(p, fs) ==
    \/ fs.series = ALL
    \/ /\ p.series.t = "number"
       /\ Number(fs.series).t = "number"
       /\ p.series.v = Number(fs.series).v

PassesCondition(p, fs) == fs.condition = "all" \/ p.condition = fs.condition

PassesSearch(p, fs) == Blank(fs.search) \/ SearchMatches(p, fs.search)

PassesAll(p, fs) ==
    PassesCategory(p, fs) /\ PassesSeries(p, fs) /\ PassesCondition(p, fs) /\ PassesSearch(p, fs)

\* a can be obtained from b by deleting elements
RECURSIVE IsSubsequence(_, _)
IsSubsequence(a, b) ==
    IF a = <<>> THEN TRUE
    ELSE IF b = <<>> THEN FALSE
    ELSE IF Head(a) = Head(b) THEN IsSubsequence(Tail(a), Tail(b))
    ELSE IsSubsequence(a, Tail(b))

NoDuplicates(a) == \A i, j \in 1..Len(a) : i # j => a[i] # a[j]

Contains(a, x) == \E i \in 1..Len(a) : a[i] = x

Filtered == calls["getFilteredProducts"] >= 1

(***************************************************************************)
(* Properties of the filter engine (SpecFilter)                            *)
(***************************************************************************)

\* C1: for every filter state, getFilteredProducts returns exactly the catalog
\* products that pass the category, series, condition and search predicates
\* all at once, in catalog order.
C1_ExactlyTheProductsPassingAllStages ==
    Filtered => result = SelectSeq(catalog, LAMBDA p : PassesAll(p, filterState))

\* category, series, condition and search are all concrete, and exactly the one
\* product passing all four was returned
C1_Witness ==
    /\ Filtered
    /\ filterState = [category |-> "iphone", series |-> <<"1","5">>,
                      condition |-> "nuevo", search |-> <<"p","r","o">>]
    /\ result = <<catalog[7]>>

\* C2: for every filter state the output of getFilteredProducts is a
\* subsequence of the catalog: only catalog products, in catalog order, none
\* twice.
C2_OutputIsSubsequenceOfCatalog ==
    Filtered => IsSubsequence(result, catalog) /\ NoDuplicates(result)

\* a filter kept some products and dropped others
C2_Witness == Filtered /\ Len(result) > 1 /\ Len(result) < Len(catalog)

\* C3: with category, series and condition at 'all' and an empty or
\* white-space-only query, getFilteredProducts returns the whole catalog in
\* its order.
C3_AllSentinelsReturnCatalog ==
    ( /\ Filtered
      /\ filterState.category = "all"
      /\ filterState.series = ALL
      /\ filterState.condition = "all"
      /\ Blank(filterState.search) )
    => result = catalog

\* the all-'all' state with a query of blanks and a tab returned every product
C3_Witness ==
    /\ Filtered
    /\ filterState = [category |-> "all", series |-> ALL, condition |-> "all",
                      search |-> <<" ","\t"," ">>]
    /\ Len(result) = Len(PRODUCTS)

\* the filter states obtained from fs by making one field concrete that is
\* 'all' (or, for search, empty) in fs
Refinements(fs) ==
    {[fs EXCEPT !.category = c] : c \in {x \in Categories \ {"all"} : fs.category = "all"}}
    \cup {[fs EXCEPT !.series = v] : v \in {x \in SeriesValues \ {ALL} : fs.series = ALL}}
    \cup {[fs EXCEPT !.condition = c] : c \in {x \in Conditions \ {"all"} : fs.condition = "all"}}
    \cup {[fs EXCEPT !.search = q] : q \in {x \in Queries \ {<<>>} : fs.search = <<>>}}

IphoneOnly == [DefaultFilterState EXCEPT !.category = "iphone"]

\* C4: filtering is monotone: making one 'all' field (or the empty search)
\* concrete yields a subsequence of the result for the original state; so
\* filter(iphone, nuevo) is within filter(iphone), which is within the catalog.
C4_RefiningAFieldShrinksTheResult ==
    Filtered =>
        /\ \A fs \in Refinements(filterState) :
               IsSubsequence(getFilteredProducts(catalog, fs), result)
        /\ IsSubsequence(getFilteredProducts(catalog, [IphoneOnly EXCEPT !.condition = "nuevo"]),
                         getFilteredProducts(catalog, IphoneOnly))
        /\ IsSubsequence(getFilteredProducts(catalog, IphoneOnly), catalog)

\* category 'iphone' alone has been filtered, and adding condition 'nuevo'
\* keeps some of its products and drops others
C4_Witness ==
    /\ Filtered
    /\ filterState = IphoneOnly
    /\ Len(result) < Len(catalog)
    /\ Len(getFilteredProducts(catalog, [IphoneOnly EXCEPT !.condition = "nuevo"])) > 0
    /\ Len(getFilteredProducts(catalog, [IphoneOnly EXCEPT !.condition = "nuevo"])) < Len(result)

C6_SearchKeepsNameOrSpecsMatches ==
    calls["filterBySearch"] >= 1 =>
        /\ Blank(filterState.search) => stageOut = stageArg
        /\ ~Blank(filterState.search) =>
               stageOut = SelectSeq(stageArg, LAMBDA p : SearchMatches(p, filterState.search))
        /\ (filterState.search = <<"p","r","o">> /\ stageArg = PRODUCTS) =>
               \A i \in 1..Len(PRODUCTS) :
                   ( \/ PRODUCTS[i].name = <<"i","P","h","o","n","e"," ","1","5"," ","P","r","o"," ","M","a","x">>
                     \/ Contains(PRODUCTS[i].specs, <<"A","1","8"," ","P","r","o">>) )
                   => Contains(stageOut, PRODUCTS[i])

\* query 'pro' over the whole catalog kept 'iPhone 15 Pro Max' and dropped
\* other products
C6_Witness ==
    /\ calls["filterBySearch"] >= 1
    /\ filterState.search = <<"p","r","o">>
    /\ stageArg = PRODUCTS
    /\ Contains(stageOut, PRODUCTS[7])
    /\ Len(stageOut) < Len(stageArg)

Series16State == [category |-> "iphone", series |-> <<"1","6">>, condition |-> "all", search |-> <<>>]

\* C7, as stated: the seeded catalog holds 17 products, and category 'iphone'
\* with series '16' returns the four Series-16 iPhones in declaration order.
C7_AsStated ==
    /\ Len(catalog) = 17
    /\ (Filtered /\ filterState = Series16State) =>
           /\ Len(result) = 4
           /\ IsSubsequence(result, catalog)
           /\ \A i \in 1..Len(catalog) :
                  Contains(result, catalog[i]) <=>
                      (catalog[i].category = "iphone" /\ catalog[i].series = Num(16))

\* C7, amended: the seeded catalog holds 16 products, and category 'iphone'
\* with series '16', condition 'all' and an empty search returns exactly the
\* four Series-16 iPhones in declaration order.
C7_SixteenProductsFourOfSeries16 ==
    /\ Len(catalog) = 16
    /\ (Filtered /\ filterState = Series16State) =>
           /\ Len(result) = 4
           /\ IsSubsequence(result, catalog)
           /\ \A i \in 1..Len(catalog) :
                  Contains(result, catalog[i]) <=>
                      (catalog[i].category = "iphone" /\ catalog[i].series = Num(16))

\* the Series-16 selection has been filtered and returned the records
\* declared third to sixth
C7_Witness ==
    /\ Filtered
    /\ filterState = Series16State
    /\ result = <<PRODUCTS[3], PRODUCTS[4], PRODUCTS[5], PRODUCTS[6]>>

(***************************************************************************)
(* Properties of lookup and relation (SpecLookup)                          *)
(***************************************************************************)
Related == calls["getRelatedProducts"] >= 1

\* q is another product than p that has p's category or p's non-null series
RelatedTo(q, p) ==
    /\ q.id # p.id
    /\ \/ q.category = p.category
       \/ (q.series # Null /\ q.series = p.series)

\* C8: for every catalog product p, getRelatedProducts(p) never contains p,
\* has at most 4 entries, and every entry has p's category or a non-null
\* series equal to p's.
C8_RelatedExcludesSelfAtMostFour ==
    Related =>
        /\ ~Contains(related, argProduct)
        /\ \A k \in 1..Len(related) : related[k].id # argProduct.id
        /\ Len(related) <= 4
        /\ \A k \in 1..Len(related) :
               \/ related[k].category = argProduct.category
               \/ (related[k].series # Null /\ related[k].series = argProduct.series)

\* the related strip of a product that more than four products match is full
C8_Witness ==
    /\ Related
    /\ Len(related) = 4
    /\ Cardinality({i \in 1..Len(catalog) : RelatedTo(catalog[i], argProduct)}) > 4

\* the catalog positions of the products related to p
RelatedPositions(p) == {i \in 1..Len(catalog) : RelatedTo(catalog[i], p)}

\* C9: for every catalog product p, getRelatedProducts(p) is the first
\* min(4, n) of the n other catalog products that match (same non-null series
\* or same category), in catalog order, with no ranking: the k-th entry is the
\* k-th matching product of the catalog.
C9_RelatedIsFirstMatchesInCatalogOrder ==
    Related =>
        LET pos == RelatedPositions(argProduct)
            n == Cardinality(pos)
        IN  /\ Len(related) = IF n < 4 THEN n ELSE 4
            /\ \A k \in 1..Len(related) :
                   \E j \in pos :
                       /\ Cardinality({i \in pos : i < j}) = k - 1
                       /\ related[k] = catalog[j]

\* a Series-15 product's related strip starts with a product of another
\* series, while a product of its own series, later in the catalog, is left out
C9_Witness ==
    /\ Related
    /\ argProduct.series = Num(15)
    /\ Len(related) = 4
    /\ related[1].series # argProduct.series
    /\ \E i \in 1..Len(catalog) :
           /\ catalog[i].id # argProduct.id
           /\ catalog[i].series = argProduct.series
           /\ ~Contains(related, catalog[i])

\* C10: for every catalog product p, findProductById(p.id) returns p itself;
\* for an id no catalog product carries it returns undefined.
C10_FindByIdRoundTrip ==
    calls["findProductById"] >= 1 =>
        /\ \A i \in 1..Len(catalog) :
               catalog[i].id = argId => (found.t = "object" /\ found.v = catalog[i])
        /\ (\A i \in 1..Len(catalog) : catalog[i].id # argId) => found = Undefined

\* the id of a product that is not the first of the catalog was looked up and
\* that product came back
C10_Witness ==
    /\ calls["findProductById"] >= 1
    /\ argId = PRODUCTS[12].id
    /\ found.t = "object"
    /\ found.v = PRODUCTS[12]

\* C11: no two products of the catalog have the same id.
C11_IdsAreUnique ==
    \A i, j \in 1..Len(catalog) : catalog[i].id = catalog[j].id => i = j

\* an id was looked up and found, and exactly one catalog record carries it
C11_Witness ==
    /\ calls["findProductById"] >= 1
    /\ found.t = "object"
    /\ Cardinality({i \in 1..Len(catalog) : catalog[i].id = argId}) = 1

\* C12: for every catalog product, series is non-null if and only if category
\* is 'iphone'.
C12_SeriesIffIphone ==
    \A i \in 1..Len(catalog) :
        catalog[i].series # Null <=> catalog[i].category = "iphone"

\* the related products of an accessory, whose series is null, have been
\* computed from a catalog that also holds iPhones with a series
C12_Witness ==
    /\ Related
    /\ argProduct.category = "accesorio"
    /\ argProduct.series = Null
    /\ \E i \in 1..Len(catalog) :
           catalog[i].category = "iphone" /\ catalog[i].series.t = "number"

\* C18: a series selection that is not 'all' and not numeric (Number(series)
\* is NaN) yields an empty result whatever the other filter fields are.
C18_NonNumericSeriesMatchesNothing ==
    (Filtered /\ filterState.series # ALL /\ Number(filterState.series).t = "NaN")
    => result = <<>>

\* the selection '16a', with every other field at 'all', returned nothing
C18_Witness ==
    /\ Filtered
    /\ filterState = [DefaultFilterState EXCEPT !.series = <<"1","6","a">>]
    /\ Number(filterState.series) = NaN
    /\ result = <<>>

\* C19, as stated: whenever the series is concrete and the category is not
\* 'iphone', getFilteredProducts returns an empty result.
C19_AsStated ==
    (Filtered /\ filterState.series # ALL /\ filterState.category # "iphone")
    => result = <<>>

\* C19, amended: whenever the series is concrete and the category is a
\* concrete category other than 'iphone' (neither 'all' nor 'iphone'),
\* getFilteredProducts returns an empty result.
C19_SeriesWithNonIphoneCategoryIsEmpty ==
    (Filtered /\ filterState.series # ALL /\ filterState.category \notin {"all", "iphone"})
    => result = <<>>

\* series '16' under category 'accesorio' returned nothing, although the
\* catalog holds products of that series and of that category
C19_Witness ==
    /\ Filtered
    /\ filterState = [DefaultFilterState EXCEPT !.category = "accesorio", !.series = <<"1","6">>]
    /\ result = <<>>
    /\ \E i, j \in 1..Len(catalog) :
           catalog[i].series = Num(16) /\ catalog[j].category = "accesorio"

(***************************************************************************)
(* Properties of the presentation functions (SpecPresent)                  *)
(***************************************************************************)
IsCatalogProduct(p) == \E i \in 1..Len(catalog) : catalog[i] = p

\* the badge b is the one a two-level dispatch gives product p on a page
\* whose certified style class is certifiedClass
TwoLevelBadge(b, p, certifiedClass) ==
    /\ b.t = "object"
    /\ (p.category = "iphone" /\ p.condition = "nuevo") => b.v.label = "Nuevo"
    /\ (p.category = "iphone" /\ p.condition = "certificado") => b.v.cssClass = certifiedClass
    /\ p.category = "accesorio" => b.v.label = "Accesorio"
    /\ p.category = "repuesto" => b.v.label = "Repuesto"

\* C14: resolveBadge is total and a two-level dispatch: every product gets one
\* defined {cssClass, label}; an iPhone's badge follows its condition alone
\* (nuevo: 'Nuevo', certificado: the certified badge), any other product's
\* follows its category alone (accesorio: 'Accesorio', repuesto: 'Repuesto')
\* whatever its condition.
C14_BadgeIsTotalTwoLevelDispatch ==
    /\ present.card # None =>
           TwoLevelBadge(present.card, argProduct, "catalog-card__badge--certified")
    /\ present.detail # None =>
           TwoLevelBadge(present.detail, argProduct, "product-detail__badge--certificado")

\* both pages computed the badge of a part whose condition is 'certificado'
\* and labelled it by its category
C14_Witness ==
    /\ argProduct.category = "repuesto"
    /\ argProduct.condition = "certificado"
    /\ present.card.t = "object"
    /\ present.detail.t = "object"
    /\ present.card.v.label = "Repuesto"
    /\ present.detail.v.label = "Repuesto"

\* the badge b gives a certified iPhone 'Certificado' and an accessory
\* 'Accesorio'
ScenarioLabels(b, p) ==
    /\ b.t = "object"
    /\ (p.category = "iphone" /\ p.condition = "certificado") => b.v.label = "Certificado"
    /\ p.category = "accesorio" => b.v.label = "Accesorio"

\* C15: resolveBadge labels a product of category 'iphone' and condition
\* 'certificado' 'Certificado', and a product of category 'accesorio'
\* 'Accesorio', on the catalog card and on the product detail.
C15_AsStated ==
    /\ present.card # None => ScenarioLabels(present.card, argProduct)
    /\ present.detail # None => ScenarioLabels(present.detail, argProduct)

\* C16: resolveWarranty is a binary total rule: the 60-day title for every
\* product of category 'iphone', the 30-day title for every other product;
\* condition and series do not matter.
C16_WarrantyFollowsCategoryAlone ==
    present.warranty # None =>
        /\ present.warranty.t = "object"
        /\ argProduct.category = "iphone" =>
               present.warranty.v.title = "60 días de garantía PSM"
        /\ argProduct.category # "iphone" =>
               present.warranty.v.title = "30 días de garantía PSM"

\* the warranty of a part was computed and is the 30-day one
C16_Witness ==
    /\ argProduct.category = "repuesto"
    /\ IsCatalogProduct(argProduct)
    /\ present.warranty.t = "object"
    /\ present.warranty.v.title = "30 días de garantía PSM"
(***************************************************************************)
(* C17: debounced search                                                   *)
(***************************************************************************)
\* the grid of document d holds a card for each product of the list, in order
GridShows(d, products) ==
    /\ Len(d.grid) = Len(products)
    /\ \A i \in 1..Len(products) : d.grid[i].productId = products[i].id

PendingSearches == {t \in timers : t.fn = "handleSearch"}

\* a step in which handleSearch's body runs
SearchFires == hist'.fires = hist.fires + 1

\* C17: at most one search recomputation is pending at any time, and it is
\* the one of the last input event, due the wait after that event; once an
\* input event has happened, the recomputation of its burst is either still
\* pending or has run exactly once. The body of handleSearch runs only when
\* the wait has passed since the last input event, writes that event's query
\* to filterState.search and renders the pipeline's result for it; no other
\* step writes a query to filterState.search (the reset writes the default).
C17_DebouncedSearch ==
    /\ [](/\ Cardinality(PendingSearches) <= 1
          /\ hist.fires <= 1
          /\ \A t \in PendingSearches :
                 /\ t.id = timer
                 /\ t.arg = hist.lastQuery
                 /\ t.remaining = SEARCH_WAIT_MS - hist.sinceInput
                 /\ hist.fires = 0
          /\ hist.events > 0 => (hist.fires = 0 <=> PendingSearches # {}))
    /\ [][/\ SearchFires =>
                 /\ hist.sinceInput = SEARCH_WAIT_MS
                 /\ filterState'.search = hist.lastQuery
                 /\ GridShows(dom', getFilteredProducts(catalog, filterState'))
          /\ filterState'.search # filterState.search =>
                 SearchFires \/ filterState' = DefaultFilterState]_vars

\* a burst of more than one input event has ended and its last query, "pro",
\* has been written once, no recomputation left pending
C17_Witness ==
    /\ hist.events = 2
    /\ hist.fires = 1
    /\ hist.lastQuery = <<"p","r","o">>
    /\ filterState.search = hist.lastQuery
    /\ PendingSearches = {}

(***************************************************************************)
(* C13: the catalog is read-only                                           *)
(***************************************************************************)
\* C13: after any sequence of URL seeding, pill clicks, search inputs,
\* debounce firings, reset clicks, findProductById and getRelatedProducts
\* calls, the catalog holds the products it held at load, in the same order
\* and with the same field values.
C13_CatalogIsReadOnly == catalog = PRODUCTS

\* both lookups have been called, one finding a product; the search "xyz" has
\* run and emptied the grid, and a reset has put the defaults back after a
\* pill click had hidden the series group
C13_Witness ==
    /\ calls["findProductById"] = 1
    /\ calls["getRelatedProducts"] = 1
    /\ found.t = "object"
    /\ Len(related) > 0
    /\ hist.lastQuery = <<"x","y","z">>
    /\ hist.fires = 1
    /\ filterState = DefaultFilterState
    /\ dom.seriesGroupHidden
    /\ Len(dom.grid) = Len(PRODUCTS)

(***************************************************************************)
(* C20: the product page's guards (SpecProduct)                            *)
(***************************************************************************)
\* the ?id= parameter is missing, empty or the id of no catalog product
NoSuchProduct ==
    IF detail.idParam.t = "string"
    THEN \A i \in 1..Len(PRODUCTS) : PRODUCTS[i].id # detail.idParam.v
    ELSE TRUE

NothingRendered ==
    /\ detail.content = None
    /\ ~detail.skeletonHidden
    /\ detail.relatedHidden
    /\ detail.relatedGrid = <<>>
    /\ detail.metaFor = ""
    /\ ~detail.eventsBound
    /\ timers = {}

\* C20: once the product page's load handler has run, an id parameter that is
\* missing or matches no catalog product has sent the page to the catalog
\* listing, with no detail, no related strip, no gallery or share events
\* bound and none scheduled; a matching id keeps the page. The detail, the
\* related strip and the events appear only for the product findProductById
\* found for the parameter.
C20_LoadGuards ==
    /\ (phase # "loading" /\ NoSuchProduct) =>
           /\ phase = "redirected"
           /\ detail.location = CATALOG_URL
           /\ NothingRendered
    /\ (phase # "loading" /\ ~NoSuchProduct) =>
           /\ phase = "ready"
           /\ detail.location = "producto.html"
    /\ (detail.content # None \/ ~detail.relatedHidden \/ detail.eventsBound) =>
           /\ found.t = "object"
           /\ found.v.id = detail.idParam.v
           /\ detail.content # None => detail.content.v.productId = found.v.id
           /\ \A i \in 1..Len(detail.relatedGrid) : detail.relatedGrid[i].productId # found.v.id

\* the page was opened with an id no product carries and has been redirected
C20_Witness ==
    /\ detail.idParam = Str("nonexistent-id")
    /\ phase = "redirected"
    /\ detail.location = CATALOG_URL
    /\ found = Undefined
    /\ argId = "nonexistent-id"

(***************************************************************************)
(* C21: the stages commute (SpecCommute)                                   *)
(***************************************************************************)
\* C21: for every filter state, the four stages applied in any of their 24
\* orders produce the same sequence of products as the order
\* getFilteredProducts uses.
C21_StagesCommute ==
    calls["getFilteredProducts"] = 1 =>
        /\ stageOut = result
        /\ \A order \in StageOrders : ReduceStages(order, catalog, filterState) = result

\* the search stage ran first and the category stage last, on a state where
\* every stage removes products and some remain
C21_Witness ==
    /\ calls["getFilteredProducts"] = 1
    /\ hist = [order |-> <<"search", "condition", "series", "category">>]
    /\ filterState = [category |-> "iphone", series |-> <<"1","5">>,
                      condition |-> "certificado", search |-> <<"1","5">>]
    /\ Len(stageOut) > 0
    /\ Len(stageOut) < Len(filterBySeries(catalog, filterState.series))

(***************************************************************************)
(* C22: URL seeding (SpecSeed)                                             *)
(***************************************************************************)
\* what the claim says filterState is after seeding from the parameter
SeededFrom(fs, filter) ==
    IF filter.t # "string" THEN fs
    ELSE IF filter.v \in {"iphone", "accesorio", "repuesto"} THEN [fs EXCEPT !.category = filter.v]
    ELSE IF filter.v \in {"nuevo", "certificado"} THEN [fs EXCEPT !.condition = filter.v]
    ELSE fs

\* C22: until the page has loaded nothing is rendered and filterState is as
\* declared; the load step seeds filterState from the 'filter' parameter
\* (category for iphone/accesorio/repuesto, condition for nuevo/certificado,
\* nothing for a missing or any other value; never series or search) and the
\* first render shows the pipeline's result for the seeded state; the page
\* is loaded once, so no later step seeds again.
C22_UrlSeeding ==
    /\ [](phase = "loading" =>
              /\ filterState = DefaultFilterState
              /\ dom.grid = <<>>
              /\ dom.totalCount = 0)
    /\ [][phase = "loading" =>
              /\ phase' = "ready"
              /\ filterState' = SeededFrom(filterState, hist.url)
              /\ filterState'.series = filterState.series
              /\ filterState'.search = filterState.search
              /\ GridShows(dom', getFilteredProducts(catalog, filterState'))]_vars
    /\ [][phase = "ready" => phase' = "ready" /\ hist'.url = hist.url]_vars

\* the page opened with ?filter=certificado has loaded: only the condition
\* is seeded and the grid shows the certified products
C22_Witness ==
    /\ phase = "ready"
    /\ hist.url = Str("certificado")
    /\ filterState = [DefaultFilterState EXCEPT !.condition = "certificado"]
    /\ dom.activePill.condition = "certificado"
    /\ Len(dom.grid) > 0
    /\ Len(dom.grid) < Len(PRODUCTS)

(***************************************************************************)
(* C23: the reset button                                                   *)
(***************************************************************************)
\* a step in which the reset button is clicked: the only step that leaves
\* the page after a reset with its timers and search history as they were
ResetClicked ==
    /\ hist'.afterReset
    /\ [hist' EXCEPT !.afterReset = FALSE] = [hist EXCEPT !.afterReset = FALSE]
    /\ timers' = timers

\* C23: a click on the reset button, from whatever filter state, leaves
\* category, series and condition 'all' and search empty, and the grid shows
\* the full catalog, which is the list getFilteredProducts returns for the
\* default state.
C23_ResetRestoresDefaults ==
    [][ResetClicked =>
           /\ filterState' = [category |-> "all", series |-> ALL, condition |-> "all",
                              search |-> <<>>]
           /\ GridShows(dom', catalog)
           /\ GridShows(dom', getFilteredProducts(catalog, filterState'))
           /\ dom'.emptyHidden
           /\ dom'.resultsCount.count = Len(catalog)]_vars

\* the search "xyz" had emptied the grid under the 'repuesto' pill; the reset
\* has been clicked and nothing else since
C23_Witness ==
    /\ hist.afterReset
    /\ hist.lastQuery = <<"x","y","z">>
    /\ hist.fires = 1
    /\ dom.seriesGroupHidden
    /\ filterState = DefaultFilterState
    /\ Len(dom.grid) = Len(PRODUCTS)
    /\ dom.searchInput = <<>>

(***************************************************************************)
(* C24: the empty state                                                    *)
(***************************************************************************)
\* C24: once the page has rendered, and after every later render, the
\* empty-state element is visible exactly when the rendered list has no
\* product, the grid then being cleared; the grid holds one card per
\* rendered product and the reported count is their number.
C24_EmptyStateIffNoProducts ==
    phase = "ready" =>
        /\ ~dom.emptyHidden <=> Len(dom.grid) = 0
        /\ ~dom.emptyHidden => dom.grid = <<>>
        /\ dom.resultsCount.count = Len(dom.grid)
        /\ dom.resultsCount.plural <=> Len(dom.grid) # 1
        /\ dom.totalCount = Len(catalog)

\* the search "xyz" has been rendered: no card, the empty state shown, a
\* count of 0
C24_Witness ==
    /\ phase = "ready"
    /\ filterState.search = <<"x","y","z">>
    /\ getFilteredProducts(catalog, filterState) = <<>>
    /\ dom.grid = <<>>
    /\ ~dom.emptyHidden
    /\ dom.resultsCount.count = 0

(***************************************************************************)
(* C25: series and category                                                *)
(***************************************************************************)
\* C25 as stated: a step that moves the category to a value other than
\* 'iphone' leaves series 'all'; in every reachable state a category of
\* 'accesorio' or 'repuesto' goes with series 'all'; a step that selects a
\* series or changes the condition, the reset apart, leaves the category.
C25_AsStated ==
    /\ [][(phase = "ready" /\ filterState'.category # filterState.category
              /\ filterState'.category # "iphone") =>
          filterState'.series = ALL]_vars
    /\ [](filterState.category \in {"accesorio", "repuesto"} => filterState.series = ALL)
    /\ [][(phase = "ready" /\ ~hist'.afterReset
              /\ \/ filterState'.series \notin {ALL, filterState.series}
                 \/ filterState'.condition # filterState.condition) =>
          filterState'.category = filterState.category]_vars

(***************************************************************************)
(* C26: the grid follows filterState                                       *)
(***************************************************************************)
\* C26: after the initial load and after every pill click, debounced search
\* firing and reset click, the grid shows the products getFilteredProducts
\* returns for the current filterState, in that order.
C26_GridShowsFilteredProducts ==
    phase = "ready" => GridShows(dom, getFilteredProducts(catalog, filterState))

\* the debounced search "pro" has run under the 'iphone' and '16' pills: the
\* grid holds some products, not all
C26_Witness ==
    /\ phase = "ready"
    /\ hist.fires = 1
    /\ filterState = [category |-> "iphone", series |-> <<"1","6">>, condition |-> "all",
                      search |-> <<"p","r","o">>]
    /\ Len(dom.grid) > 0
    /\ Len(dom.grid) < Len(filterBySeries(catalog, filterState.series))

(***************************************************************************)
(* C27: the reset and a pending search                                     *)
(***************************************************************************)
\* C27 as stated: from a click on the reset button until the next pill click
\* or input event, filterState is all defaults and the grid shows the full
\* catalog, whatever search was pending when the button was clicked.
C27_AsStated ==
    hist.afterReset =>
        /\ filterState = DefaultFilterState
        /\ GridShows(dom, catalog)

(***************************************************************************)
(* C28: the image of a catalog card                                        *)
(***************************************************************************)
\* C28 as stated: every card the grid holds carries a defined image
\* reference, namely the first entry of its product's gallery.
C28_AsStated ==
    phase = "ready" =>
        \A i \in 1..Len(dom.grid) :
            \E k \in 1..Len(catalog) :
                /\ catalog[k].id = dom.grid[i].productId
                /\ dom.grid[i].image.t = "object"
                /\ dom.grid[i].image.v = catalog[k].gallery[1]

(***************************************************************************)
(* C29: the B2B form's submission (SpecForm)                               *)
(***************************************************************************)
\* a step in which the form is submitted
FormSubmitted == hist'.submits = hist.submits + 1

\* the required fields of document d that are empty once trimmed
EmptyRequired(d) == {f \in RequiredIds : \A i \in 1..Len(d.fields[f]) : d.fields[f][i] \in WhiteSpace}

PendingRestores == {t \in timers : t.fn = "restoreButton"}

\* C29: a submission opens the WhatsApp link and disables the button exactly
\* when no required field is empty after trimming, and then no field is
\* marked; otherwise nothing is opened, the button and the timers are as
\* before, and the fields marked, and the error texts set, are exactly those
\* of the required fields that are empty. Nothing but a submission opens a
\* link. The button is disabled exactly while its restoring callback is
\* pending, which is due 3000 ms after the valid submission and re-enables
\* the button then.
C29_SubmitOpensIffRequiredFilled ==
    /\ [][FormSubmitted =>
              /\ EmptyRequired(dom) = {} <=> hist'.opens = hist.opens + 1
              /\ EmptyRequired(dom) = {} =>
                     /\ dom'.btnDisabled
                     /\ dom'.btnText = "Abriendo WhatsApp..."
                     /\ dom'.opened.t = "object"
                     /\ dom'.opened.v.base = WHATSAPP_BASE
                     /\ dom'.inputError = {}
              /\ EmptyRequired(dom) # {} =>
                     /\ hist'.opens = hist.opens
                     /\ dom'.opened = dom.opened
                     /\ dom'.btnDisabled = dom.btnDisabled
                     /\ dom'.btnText = dom.btnText
                     /\ timers' = timers
              /\ dom'.inputError = EmptyRequired(dom)
              /\ \A i \in 1..Len(REQUIRED_FIELDS) :
                     dom'.errorText[REQUIRED_FIELDS[i].errorId] # ""
                         <=> REQUIRED_FIELDS[i].id \in EmptyRequired(dom)
              /\ dom'.fields = dom.fields]_vars
    /\ [][hist'.opens # hist.opens \/ dom'.opened # dom.opened => FormSubmitted]_vars
    /\ [](/\ dom.btnDisabled <=> PendingRestores # {}
          /\ Cardinality(PendingRestores) <= 1
          /\ \A t \in PendingRestores : t.remaining = RESTORE_MS - hist.sinceValid)
    /\ [][dom'.btnDisabled # dom.btnDisabled /\ ~dom'.btnDisabled =>
              /\ hist.sinceValid = RESTORE_MS
              /\ dom'.btnText = "Enviar solicitud por WhatsApp"]_vars

\* a valid submission opened the link and the button was restored; the
\* products field was then blanked and a second submission has marked it,
\* alone, without opening anything
C29_Witness ==
    /\ hist.submits = 2
    /\ hist.opens = 1
    /\ dom.opened # None
    /\ ~dom.btnDisabled
    /\ timers = {}
    /\ dom.fields["field-name"] = <<" ","a"," ">>
    /\ dom.fields["field-products"] = <<" ">>
    /\ dom.inputError = {"field-products"}
    /\ dom.focus = "field-products"

(***************************************************************************)
(* C30: the carousel pauses under the pointer (SpecCarousel)               *)
(***************************************************************************)
\* the frames move the track
AutoPlayOn == dom.isAutoPlaying /\ ~dom.isTransitioning

\* C30 as stated: while the pointer is over the track, auto-play is off; and
\* while a transition is in progress no click moves the track or schedules
\* another end of transition.
C30_AsStated ==
    /\ [](phase = "ready" /\ hist.hovering => ~AutoPlayOn)
    /\ [][(phase = "ready" /\ dom.isTransitioning /\ dom'.isTransitioning) =>
              /\ dom'.currentX = dom.currentX
              /\ Cardinality(timers') <= 1]_vars

====
